---- MODULE Spec2Model ----
(***************************************************************************)
(* SightScanner: the Grad-CAM heatmap and metrics engine (lib/gradcam).    *)
(*                                                                         *)
(* Numbers.  The program computes in float32 tensors and JavaScript        *)
(* doubles.  The model computes in exact rationals: a finite number is a   *)
(* record [num, den] in lowest terms with den > 0, and the result of a     *)
(* division by zero is the value NaN.  Rounding is not modelled.           *)
(*                                                                         *)
(* Indices.  A tensor is [shape, data] with data the row-major flat array  *)
(* (tensor.data()); a number[][] is a sequence of rows.  The operators     *)
(* take the 0-based indices of the source and add one where they read a    *)
(* TLA+ sequence.                                                          *)
(***************************************************************************)
EXTENDS Integers, Sequences, FiniteSets, TLC

VARIABLES
    pc,                 \* position of the call being modelled
    model,              \* computeGradCAM's `model`: the classifier
    inputTensor,        \* computeGradCAM's `inputTensor`, shape [1, height, width, 1]
    classIndex,         \* computeGradCAM's `classIndex`
    convOutputs,        \* computeGradCAM's `convOutputs`, shape [1, h, w, c]
    grads,              \* computeGradCAM's `grads`
    pooledGrads,        \* computeGradCAM's `pooledGrads`
    liveTensors,        \* the tensors the call of computeGradCAM allocated and has not released
    rawMap,             \* computeGradCAM's `heatmap`: the rectified raw map (Tensor2D)
    normalizedHeatmap,  \* computeGradCAM's `normalizedHeatmap` (Tensor2D)
    metrics,            \* the record computeMetrics returns
    byThreshold,        \* percentAffected and lccSize of the heatmap at each threshold tried
    scanData,           \* preprocessScanData's `scanData`: the scan record's scan_data
    encoded,            \* what preprocessScanData returns
    scanHistory,        \* the rows of the scan_history table, by id
    storage,            \* the files of the analysis_results bucket
    scans,              \* ScanSelector's `scans`: the scan list as loaded
    selectedScan,       \* the page's `selectedScan`
    isAnalyzing,        \* the page's `isAnalyzing`
    currentHeatmap,     \* the page's `currentHeatmap`
    currentResults,     \* the page's `currentResults`
    analysisError,      \* the page's `analysisError`
    cachedModel,        \* the page's `model`: the classifier once loaded
    analysis,           \* the call of runAnalysis: where it awaits, and its closure
    saving,             \* the call of saveResults: where it awaits, and its closure
    toast,              \* the title of the last toast shown
    modelLoads,         \* how many times loadModel has resolved since the application started
    phase,              \* CalibrationPage's `phase`
    countdown,          \* CalibrationPage's `countdown`
    measurements,       \* CalibrationPage's `measurements`
    currentTrial,       \* CalibrationPage's `currentTrial`
    intervalRef,        \* CalibrationPage's `intervalRef`: the interval armed, if any
    timeoutRef,         \* CalibrationPage's `timeoutRef`: the timeout armed, if any
    startTimeouts       \* the timeouts of handleStartCalibration not yet fired

camVars == <<model, inputTensor, classIndex, convOutputs, grads, pooledGrads, liveTensors>>

metricVars == <<rawMap, normalizedHeatmap, metrics, byThreshold>>

encVars == <<scanData, encoded>>

engineVars == <<pc, camVars, metricVars, encVars>>

pageVars == <<scanHistory, storage, scans, selectedScan, isAnalyzing, currentHeatmap,
              currentResults, analysisError, cachedModel, analysis, saving, toast,
              modelLoads>>

calVars == <<phase, countdown, measurements, currentTrial, intervalRef, timeoutRef,
             startTimeouts>>

vars == <<engineVars, pageVars, calVars>>

----------------------------------------------------------------------------
(* Bounds of the model. *)

MaxRows == 2
MaxCols == 3
MaxCells == 6
MaxPoints == 2
MaxLoads == 2
MaxStarts == 2

\* Values a raw map cell takes in the model (non-negative, as after tf.relu).
RawLevels == {0, 1, 2, 3}

----------------------------------------------------------------------------
(* Exact rational arithmetic standing for the float arithmetic. *)

\* What a division by zero yields (0/0 is NaN in IEEE arithmetic).
NaN == [num |-> 0, den |-> 0]

Abs(n) == IF n < 0 THEN -n ELSE n

RECURSIVE GCD(_, _)
GCD(a, b) == IF b = 0 THEN a ELSE GCD(b, a % b)

\* The rational n/d (d # 0) in lowest terms with a positive denominator.
Rat(n, d) ==
    LET g == GCD(Abs(n), Abs(d))
        s == IF d < 0 THEN -1 ELSE 1
    IN  [num |-> (s * n) \div g, den |-> (s * d) \div g]

Int2Rat(n) == [num |-> n, den |-> 1]
Zero == Int2Rat(0)
One == Int2Rat(1)
Half == [num |-> 1, den |-> 2]

IsNum(a) == a.den # 0

RLt(a, b) == IsNum(a) /\ IsNum(b) /\ a.num * b.den < b.num * a.den
RLe(a, b) == IsNum(a) /\ IsNum(b) /\ a.num * b.den <= b.num * a.den
RGt(a, b) == RLt(b, a)

RAdd(a, b) ==
    IF a = NaN \/ b = NaN THEN NaN
    ELSE Rat(a.num * b.den + b.num * a.den, a.den * b.den)

RSub(a, b) ==
    IF a = NaN \/ b = NaN THEN NaN
    ELSE Rat(a.num * b.den - b.num * a.den, a.den * b.den)

RMul(a, b) ==
    IF a = NaN \/ b = NaN THEN NaN
    ELSE Rat(a.num * b.num, a.den * b.den)

\* a / b; a division by zero gives no finite number.
RDiv(a, b) ==
    IF a = NaN \/ b = NaN THEN NaN
    ELSE IF b.num = 0 THEN NaN
    ELSE Rat(a.num * b.den, a.den * b.num)

RAbs(a) == IF a = NaN THEN NaN ELSE [num |-> Abs(a.num), den |-> a.den]

RMax(a, b) == IF RLt(a, b) THEN b ELSE a
RMin(a, b) == IF RLt(b, a) THEN b ELSE a

----------------------------------------------------------------------------
(* Tensors. *)

Tensor2D(h, w, d) == [shape |-> <<h, w>>, data |-> d]

NoTensor == [shape |-> <<0, 0>>, data |-> <<>>]

RECURSIVE SeqMin(_)
SeqMin(s) == IF Len(s) = 1 THEN s[1] ELSE RMin(s[1], SeqMin(Tail(s)))

RECURSIVE SeqMax(_)
SeqMax(s) == IF Len(s) = 1 THEN s[1] ELSE RMax(s[1], SeqMax(Tail(s)))

\* tf.min / tf.max over all elements.
TfMin(t) == SeqMin(t.data)
TfMax(t) == SeqMax(t.data)

----------------------------------------------------------------------------
(* normalizeHeatmap *)

NormalizedRangeUnguarded(range) == range

\* tf.where(tf.equal(range, 0), tf.ones(range.shape), range)
NormalizedRange(range) == IF range = Zero THEN One ELSE range

SubMinNothing(x, min) == x

\* tf.sub(heatmap, min), one element
SubMin(x, min) == RSub(x, min)

normalizeHeatmap(heatmap) ==
    LET min == TfMin(heatmap)
        max == TfMax(heatmap)
        range == RSub(max, min)
        normalizedRange == NormalizedRange(range)
    IN  [shape |-> heatmap.shape,
         data |-> [k \in 1..Len(heatmap.data) |->
                      RDiv(SubMin(heatmap.data[k], min), normalizedRange)]]

----------------------------------------------------------------------------
(* computeMetrics *)

\* lines 272-279: heatmapArray[i][j] = heatmapData[i * width + j]
HeatmapArray(heatmap) ==
    LET height == heatmap.shape[1]
        width == heatmap.shape[2]
    IN  [i \in 1..height |-> [j \in 1..width |-> heatmap.data[(i - 1) * width + (j - 1) + 1]]]

\* line 282
threshold == Half

ExceedsOrEquals(v, t) == RLe(t, v)

ExceedsReversed(v, t) == RLt(v, t)

\* line 290: heatmapArray[i][j] > threshold
Exceeds(v, t) == RGt(v, t)

\* lines 285-294: the nested loops that count affectedPixels, from cell k on
\* (k = i * width + j), with the threshold as a parameter.
RECURSIVE AffectedPixels(_, _, _, _, _)
AffectedPixels(heatmapArray, height, width, t, k) ==
    IF k >= height * width THEN 0
    ELSE LET i == k \div width
             j == k % width
         IN  (IF Exceeds(heatmapArray[i + 1][j + 1], t) THEN 1 ELSE 0)
             + AffectedPixels(heatmapArray, height, width, t, k + 1)

PercentAffectedFraction(heatmapArray, height, width, t) ==
    RDiv(Int2Rat(AffectedPixels(heatmapArray, height, width, t, 0)), Int2Rat(height * width))

\* line 296: (affectedPixels / totalPixels) * 100
PercentAffected(heatmapArray, height, width, t) ==
    LET affectedPixels == AffectedPixels(heatmapArray, height, width, t, 0)
        totalPixels == height * width
    IN  RMul(RDiv(Int2Rat(affectedPixels), Int2Rat(totalPixels)), Int2Rat(100))

WeightXByRow(i, j, intensity) == RMul(Int2Rat(i), intensity)

\* line 304: j * intensity
WeightX(i, j, intensity) == RMul(Int2Rat(j), intensity)

\* line 305: i * intensity
WeightY(i, j, intensity) == RMul(Int2Rat(i), intensity)

\* lines 299-308: the sums sumX, sumY, sumIntensity, from cell k on
RECURSIVE CentroidSums(_, _, _, _)
CentroidSums(heatmapArray, height, width, k) ==
    IF k >= height * width THEN [sumX |-> Zero, sumY |-> Zero, sumIntensity |-> Zero]
    ELSE LET i == k \div width
             j == k % width
             intensity == heatmapArray[i + 1][j + 1]
             rest == CentroidSums(heatmapArray, height, width, k + 1)
         IN  [sumX |-> RAdd(WeightX(i, j, intensity), rest.sumX),
              sumY |-> RAdd(WeightY(i, j, intensity), rest.sumY),
              sumIntensity |-> RAdd(intensity, rest.sumIntensity)]

FallbackFull(extent) == Int2Rat(extent)

\* lines 311-312: width / 2, height / 2
Fallback(extent) == RDiv(Int2Rat(extent), Int2Rat(2))

\* lines 310-313
Centroid(heatmapArray, height, width) ==
    LET s == CentroidSums(heatmapArray, height, width, 0)
    IN  [x |-> IF RGt(s.sumIntensity, Zero) THEN RDiv(s.sumX, s.sumIntensity)
                                            ELSE Fallback(width),
         y |-> IF RGt(s.sumIntensity, Zero) THEN RDiv(s.sumY, s.sumIntensity)
                                            ELSE Fallback(height)]

----------------------------------------------------------------------------
(* calculateLCC *)

NeighboursNoUp(row, col) ==
    << <<row + 1, col>>, <<row, col + 1>>, <<row, col - 1>> >>

\* lines 349-353: the four recursive calls of dfs, in their order
Neighbours(row, col) ==
    << <<row + 1, col>>, <<row - 1, col>>, <<row, col + 1>>, <<row, col - 1>> >>

StopsAtNever(v, t) == FALSE

\* line 342: heatmap[row][col] <= threshold
StopsAt(v, t) == RLe(v, t)

\* lines 340-356: dfs(row, col) with the `visited` matrix as the set of the
\* visited cells; the result is the size dfs returns and `visited` after it.
\* dfsFrom runs the calls of lines 350-353 from the n-th neighbour on.
RECURSIVE dfs(_, _, _, _, _, _, _)
RECURSIVE dfsFrom(_, _, _, _, _, _, _, _)
dfs(heatmap, t, height, width, visited, row, col) ==
    IF \/ row < 0 \/ row >= height \/ col < 0 \/ col >= width
       \/ <<row, col>> \in visited
       \/ StopsAt(heatmap[row + 1][col + 1], t)
    THEN [size |-> 0, visited |-> visited]
    ELSE LET r == dfsFrom(heatmap, t, height, width,
                          visited \cup {<<row, col>>}, row, col, 1)
         IN  [size |-> 1 + r.size, visited |-> r.visited]

dfsFrom(heatmap, t, height, width, visited, row, col, n) ==
    IF n > Len(Neighbours(row, col)) THEN [size |-> 0, visited |-> visited]
    ELSE LET to == Neighbours(row, col)[n]
             first == dfs(heatmap, t, height, width, visited, to[1], to[2])
             rest == dfsFrom(heatmap, t, height, width, first.visited, row, col, n + 1)
         IN  [size |-> first.size + rest.size, visited |-> rest.visited]

MaxInt(a, b) == IF a >= b THEN a ELSE b

\* line 362: maxSize = Math.max(maxSize, componentSize)
Accumulate(maxSize, componentSize) == MaxInt(maxSize, componentSize)

\* lines 358-365: the loops over (i, j) from cell k on, carrying visited and maxSize
RECURSIVE LCCLoop(_, _, _, _, _, _, _)
LCCLoop(heatmap, t, height, width, visited, maxSize, k) ==
    IF k >= height * width THEN maxSize
    ELSE LET i == k \div width
             j == k % width
         IN  IF <<i, j>> \notin visited /\ RGt(heatmap[i + 1][j + 1], t)
             THEN LET c == dfs(heatmap, t, height, width, visited, i, j)
                  IN  LCCLoop(heatmap, t, height, width, c.visited,
                              Accumulate(maxSize, c.size), k + 1)
             ELSE LCCLoop(heatmap, t, height, width, visited, maxSize, k + 1)

\* lines 334-368
calculateLCC(heatmap, t) ==
    LET height == Len(heatmap)
        width == Len(heatmap[1])
    IN  LCCLoop(heatmap, t, height, width, {}, 0, 0)

\* lines 340-356: the depth of the nesting of the calls of dfs that the call
\* dfs(row, col) reaches, itself counted, with `visited` after it.
\* dfsDepthFrom follows the calls of lines 350-353 from the n-th neighbour on.
RECURSIVE dfsDepth(_, _, _, _, _, _, _)
RECURSIVE dfsDepthFrom(_, _, _, _, _, _, _, _)
dfsDepth(heatmap, t, height, width, visited, row, col) ==
    IF \/ row < 0 \/ row >= height \/ col < 0 \/ col >= width
       \/ <<row, col>> \in visited
       \/ StopsAt(heatmap[row + 1][col + 1], t)
    THEN [depth |-> 1, visited |-> visited]
    ELSE LET r == dfsDepthFrom(heatmap, t, height, width,
                               visited \cup {<<row, col>>}, row, col, 1)
         IN  [depth |-> 1 + r.depth, visited |-> r.visited]

dfsDepthFrom(heatmap, t, height, width, visited, row, col, n) ==
    IF n > Len(Neighbours(row, col)) THEN [depth |-> 0, visited |-> visited]
    ELSE LET to == Neighbours(row, col)[n]
             first == dfsDepth(heatmap, t, height, width, visited, to[1], to[2])
             rest == dfsDepthFrom(heatmap, t, height, width, first.visited, row, col, n + 1)
         IN  [depth |-> MaxInt(first.depth, rest.depth), visited |-> rest.visited]

\* lines 358-365: the deepest nesting of dfs calls over the calls the loops
\* make from cell k on
RECURSIVE LCCDepthLoop(_, _, _, _, _, _, _)
LCCDepthLoop(heatmap, t, height, width, visited, maxDepth, k) ==
    IF k >= height * width THEN maxDepth
    ELSE LET i == k \div width
             j == k % width
         IN  IF <<i, j>> \notin visited /\ RGt(heatmap[i + 1][j + 1], t)
             THEN LET c == dfsDepth(heatmap, t, height, width, visited, i, j)
                  IN  LCCDepthLoop(heatmap, t, height, width, c.visited,
                                   MaxInt(maxDepth, c.depth), k + 1)
             ELSE LCCDepthLoop(heatmap, t, height, width, visited, maxDepth, k + 1)

\* lines 334-368: the deepest nesting of dfs calls in calculateLCC(heatmap, t)
calculateLCCDepth(heatmap, t) ==
    LET height == Len(heatmap)
        width == Len(heatmap[1])
    IN  LCCDepthLoop(heatmap, t, height, width, {}, 0, 0)

----------------------------------------------------------------------------
(* calculateLeftRightSymmetry, calculateTopBottomSymmetry *)

\* line 382: width - 1 - j
MirrorCol(width, j) == width - 1 - j

UnmirroredRow(height, i) == i

\* line 404: height - 1 - i
MirrorRow(height, i) == height - 1 - i

\* lines 376-387: totalDiff and totalIntensity over rows i and columns
\* j < floor(width / 2), from pair k on (k = i * floor(width / 2) + j)
RECURSIVE LRSums(_, _, _, _)
LRSums(heatmap, height, width, k) ==
    LET half == width \div 2
    IN  IF k >= height * half THEN [totalDiff |-> Zero, totalIntensity |-> Zero]
        ELSE LET i == k \div half
                 j == k % half
                 leftPixel == heatmap[i + 1][j + 1]
                 rightPixel == heatmap[i + 1][MirrorCol(width, j) + 1]
                 rest == LRSums(heatmap, height, width, k + 1)
             IN  [totalDiff |-> RAdd(RAbs(RSub(leftPixel, rightPixel)), rest.totalDiff),
                  totalIntensity |-> RAdd(RMax(leftPixel, rightPixel), rest.totalIntensity)]

SymmetryScoreZeroFallback(s) ==
    IF RGt(s.totalIntensity, Zero)
    THEN RMax(Zero, RSub(One, RDiv(s.totalDiff, s.totalIntensity)))
    ELSE Zero

SymmetryScoreRatio(s) ==
    IF RGt(s.totalIntensity, Zero)
    THEN RMax(Zero, RDiv(s.totalDiff, s.totalIntensity))
    ELSE One

\* lines 389, 411: totalIntensity > 0 ? Math.max(0, 1 - totalDiff / totalIntensity) : 1
SymmetryScore(s) ==
    IF RGt(s.totalIntensity, Zero)
    THEN RMax(Zero, RSub(One, RDiv(s.totalDiff, s.totalIntensity)))
    ELSE One

\* lines 373-390
calculateLeftRightSymmetry(heatmap) ==
    SymmetryScore(LRSums(heatmap, Len(heatmap), Len(heatmap[1]), 0))

\* lines 398-409: the same sums over rows i < floor(height / 2) and every column
RECURSIVE TBSums(_, _, _, _)
TBSums(heatmap, height, width, k) ==
    IF k >= (height \div 2) * width THEN [totalDiff |-> Zero, totalIntensity |-> Zero]
    ELSE LET i == k \div width
             j == k % width
             topPixel == heatmap[i + 1][j + 1]
             bottomPixel == heatmap[MirrorRow(height, i) + 1][j + 1]
             rest == TBSums(heatmap, height, width, k + 1)
         IN  [totalDiff |-> RAdd(RAbs(RSub(topPixel, bottomPixel)), rest.totalDiff),
              totalIntensity |-> RAdd(RMax(topPixel, bottomPixel), rest.totalIntensity)]

\* lines 395-412
calculateTopBottomSymmetry(heatmap) ==
    SymmetryScore(TBSums(heatmap, Len(heatmap), Len(heatmap[1]), 0))

----------------------------------------------------------------------------
(* computeMetrics, lines 262-329 *)

computeMetrics(heatmap) ==
    LET height == heatmap.shape[1]
        width == heatmap.shape[2]
        heatmapArray == HeatmapArray(heatmap)
    IN  [percentAffected |-> PercentAffected(heatmapArray, height, width, threshold),
         centroid |-> Centroid(heatmapArray, height, width),
         lccSize |-> calculateLCC(heatmapArray, threshold),
         symLR |-> calculateLeftRightSymmetry(heatmapArray),
         symTB |-> calculateTopBottomSymmetry(heatmapArray)]

----------------------------------------------------------------------------
(* The classifier handed to computeGradCAM.                                *)
(*                                                                         *)
(* The classifier is loaded from a model file and run by TensorFlow.js.    *)
(* The model takes the classifiers of one small family: an input           *)
(* [1, height, width, 1], then either                                      *)
(*   Conv2D (1x1 kernel, one filter per channel, no bias, linear),         *)
(*   GlobalAveragePooling2D, Dense (no bias, linear),                      *)
(* or, with no convolutional layer, Flatten and Dense.                     *)
(***************************************************************************)

Channels == {0, 1}
Classes == {0, 1}
KernelValues == {-1, 2}
DenseValues == {-1, 1}

NoModel == [layers |-> <<>>]

\* A layer carries the reference count TensorFlow.js keeps for it: 1 once
\* the loaded model has applied it, and its weights are live while the count
\* is positive.
ConvLayers ==
    << [name |-> "conv2d_1", className |-> "Conv2D", refCount |-> 1],
       [name |-> "global_average_pooling2d_1", className |-> "GlobalAveragePooling2D",
        refCount |-> 1],
       [name |-> "dense_1", className |-> "Dense", refCount |-> 1] >>

DenseLayers ==
    << [name |-> "flatten_1", className |-> "Flatten", refCount |-> 1],
       [name |-> "dense_1", className |-> "Dense", refCount |-> 1] >>

Classifiers ==
    {[layers |-> ConvLayers, kernel |-> k, dense |-> d] :
        k \in [Channels -> KernelValues], d \in [Classes -> [Channels -> DenseValues]]}
    \cup {[layers |-> DenseLayers]}

Tensor4D(h, w, c, d) == [shape |-> <<1, h, w, c>>, data |-> d]

\* Element [0, h, w, c] of a tensor of shape [1, H, W, C] (0-based).
At4(t, h, w, c) == t.data[(h * t.shape[3] + w) * t.shape[4] + c + 1]

\* lines 225-237: the search from layer i (1-based here) down to the first
RECURSIVE LastConvFrom(_, _)
LastConvFrom(layers, i) ==
    IF i < 1 THEN "null"
    ELSE IF layers[i].className = "Conv2D" THEN layers[i].name
    ELSE LastConvFrom(layers, i - 1)

getLastConvLayerName(m) == LastConvFrom(m.layers, Len(m.layers))

\* lines 180 and 186 (and pages/GradCamAnalysis line 165): predict reads the
\* weights of every layer, and reading a released weight throws
WeightsLive(m) == \A i \in DOMAIN m.layers : m.layers[i].refCount > 0

\* lines 168-176 and 214: gradModel is built by tf.model from the symbolic
\* input and outputs of `model`, so its layers are the layer objects of
\* `model`, with the reference counts they have; gradModel.dispose() takes
\* gradModel's own count from 1 to 0 and so disposes each of its layers,
\* which lowers the layer's count and releases its weights at 0.  The
\* operator gives `model` as the call leaves it.
DisposeGradModel(m) ==
    [m EXCEPT !.layers = [i \in DOMAIN m.layers |->
                             [m.layers[i] EXCEPT !.refCount = @ - 1]]]

\* lines 179-182: the tensors tf.tidy hands out
TensorsOfPredict == {"predictions", "convOutputs"}

\* lines 190-202: the tensors made outside tf.tidy, one per operation; those
\* made inside normalizeHeatmap's tf.tidy are released by it, except its
\* result
TensorsOfHeatmap ==
    {"grads", "pooledGrads", "convOutputs.squeeze", "pooledGrads.expandDims",
     "pooledGrads.expandDims.expandDims", "weightedConvOutputs", "tf.sum", "heatmap",
     "normalizedHeatmap"}

\* lines 208-213: the tensors disposed before the return
TensorsDisposed ==
    {"predictions", "convOutputs", "grads", "pooledGrads", "weightedConvOutputs", "heatmap"}

\* lines 179-182, result[1]: the output of the Conv2D layer on the input x,
\* A[h, w, c] = kernel[c] * x[h, w]
ConvActivations(m, x) ==
    LET h == x.shape[2]
        w == x.shape[3]
        c == Cardinality(Channels)
    IN  Tensor4D(h, w, c,
            [k \in 1..(h * w * c) |->
                RMul(Int2Rat(m.kernel[(k - 1) % c]), x.data[((k - 1) \div c) + 1])])

\* lines 185-190: tf.grad(f)(inputTensor), the gradient with respect to the
\* argument x of f of the score of class `cls` that gradModel.predict(x)
\* gives.  The score is sum_c dense[cls][c] * mean_hw(kernel[c] * x[h, w]), so
\* the gradient at every x[h, w] is sum_c dense[cls][c] * kernel[c] / (h * w).
\* It has the shape of x.
RECURSIVE DenseTimesKernel(_, _, _)
DenseTimesKernel(m, cls, c) ==
    IF c >= Cardinality(Channels) THEN 0
    ELSE m.dense[cls][c] * m.kernel[c] + DenseTimesKernel(m, cls, c + 1)

GradOfScore(m, x, cls) ==
    [shape |-> x.shape,
     data |-> [k \in 1..Len(x.data) |->
                  Rat(DenseTimesKernel(m, cls, 0), x.shape[2] * x.shape[3])]]

RECURSIVE SeqSum(_)
SeqSum(s) == IF s = <<>> THEN Zero ELSE RAdd(s[1], SeqSum(Tail(s)))

\* line 193: tf.mean(grads, [0, 1, 2]), one mean per index of the last axis
MeanOverSpatial(g) ==
    LET last == g.shape[4]
        n == g.shape[1] * g.shape[2] * g.shape[3]
    IN  [shape |-> <<last>>,
         data |-> [c \in 1..last |->
                      RDiv(SeqSum([p \in 1..n |-> g.data[(p - 1) * last + c]]),
                           Int2Rat(n))]]

\* line 196: the element of pooledGrads that broadcasting pairs with channel
\* c of convOutputs (its only element when it has one)
PooledFor(pooled, c) ==
    IF pooled.shape[1] = 1 THEN pooled.data[1] ELSE pooled.data[c + 1]

ReluIdentity(x) == x

\* line 199: tf.relu, one element
Relu(x) == RMax(Zero, x)

\* lines 196-199: tf.sum(weightedConvOutputs, -1) at [h, w], from channel c on
RECURSIVE WeightedSum(_, _, _, _, _)
WeightedSum(conv, pooled, h, w, c) ==
    IF c >= conv.shape[4] THEN Zero
    ELSE RAdd(RMul(At4(conv, h, w, c), PooledFor(pooled, c)),
              WeightedSum(conv, pooled, h, w, c + 1))

\* lines 196-199: heatmap = tf.relu(tf.sum(weightedConvOutputs, -1))
RawHeatmap(conv, pooled) ==
    LET h == conv.shape[2]
        w == conv.shape[3]
    IN  Tensor2D(h, w,
            [k \in 1..(h * w) |->
                Relu(WeightedSum(conv, pooled, (k - 1) \div w, (k - 1) % w, 0))])

----------------------------------------------------------------------------
(* Inputs *)

Shapes == {s \in (1..MaxRows) \X (1..MaxCols) : s[1] * s[2] <= MaxCells}

RawMaps ==
    UNION {{Tensor2D(s[1], s[2], d) :
               d \in [1..(s[1] * s[2]) -> {Int2Rat(v) : v \in RawLevels}]} :
           s \in Shapes}

\* Values a heatmap cell takes in the model: 0, the threshold 1/2, and 1.
HeatLevels == {Zero, Half, One}

\* Thresholds tried in place of the fixed 0.5 of line 282.
Thresholds == {Zero, [num |-> 1, den |-> 4], Half, [num |-> 3, den |-> 4], One}

Heatmaps ==
    UNION {{Tensor2D(s[1], s[2], d) : d \in [1..(s[1] * s[2]) -> HeatLevels]} :
           s \in Shapes}

NoMetrics == [none |-> TRUE]

\* preprocessScanData has no argument or no result yet.
NoScanData == [none |-> TRUE]
NoEncoding == [none |-> TRUE]

\* The page's null, and the frames of its handlers when none is running.
Null == [none |-> TRUE]

IdleAnalysis ==
    [pc |-> "idle", scan |-> Null, currentModel |-> NoModel, error |-> "null",
     stages |-> <<>>]

IdleSaving ==
    [pc |-> "idle", scan |-> Null, results |-> Null, heatmap |-> Null, fileName |-> Null,
     uploaded |-> FALSE]

\* The page's variables when no page is open.
PageClosed ==
    /\ scanHistory = <<>>
    /\ storage = {}
    /\ scans = <<>>
    /\ selectedScan = Null
    /\ isAnalyzing = FALSE
    /\ currentHeatmap = Null
    /\ currentResults = Null
    /\ analysisError = "null"
    /\ cachedModel = NoModel
    /\ analysis = IdleAnalysis
    /\ saving = IdleSaving
    /\ toast = "none"
    /\ modelLoads = 0

\* The calibration page's variables when it is not open.
CalClosed ==
    /\ phase = "closed"
    /\ countdown = 3
    /\ measurements = <<>>
    /\ currentTrial = 0
    /\ intervalRef = "undefined"
    /\ timeoutRef = [callback |-> "undefined", count |-> 0]
    /\ startTimeouts = 0

\* The 4x4 raw map with 0.5 in the top-left 2x2 block and 0 elsewhere.
ScenarioRawMap ==
    Tensor2D(4, 4, [k \in 1..16 |-> IF (k - 1) \div 4 < 2 /\ (k - 1) % 4 < 2 THEN Half ELSE Zero])

\* Either a raw map, as handed to normalizeHeatmap, or a heatmap with values
\* in [0,1], as handed to computeMetrics.
Init ==
    /\ \/ /\ pc = "raw"
          /\ rawMap \in RawMaps \cup {ScenarioRawMap}
          /\ normalizedHeatmap = NoTensor
       \/ /\ pc = "normalized"
          /\ rawMap = NoTensor
          /\ normalizedHeatmap \in Heatmaps
    /\ metrics = NoMetrics
    /\ byThreshold = <<>>
    /\ model = NoModel
    /\ inputTensor = NoTensor
    /\ classIndex = 0
    /\ convOutputs = NoTensor
    /\ grads = NoTensor
    /\ pooledGrads = NoTensor
    /\ liveTensors = {}
    /\ scanData = NoScanData
    /\ encoded = NoEncoding
    /\ PageClosed
    /\ CalClosed

\* computeGradCAM line 202: normalizedHeatmap = normalizeHeatmap(heatmap)
Normalize ==
    /\ pc = "raw"
    /\ normalizedHeatmap' = normalizeHeatmap(rawMap)
    /\ pc' = "normalized"
    /\ UNCHANGED <<camVars, rawMap, metrics, byThreshold>>
    /\ UNCHANGED encVars
    /\ UNCHANGED <<pageVars, calVars>>

\* computeGradCAM line 205: metrics = await computeMetrics(normalizedHeatmap)
Metrics ==
    /\ pc = "normalized"
    /\ metrics' = computeMetrics(normalizedHeatmap)
    /\ pc' = "measured"
    /\ UNCHANGED <<camVars, rawMap, normalizedHeatmap, byThreshold>>
    /\ UNCHANGED encVars
    /\ UNCHANGED <<pageVars, calVars>>

\* The percent-affected loop (lines 285-296) and calculateLCC (line 316) run on
\* the heatmap with each threshold of Thresholds in place of 0.5.
Sweep ==
    /\ pc = "normalized"
    /\ LET height == normalizedHeatmap.shape[1]
           width == normalizedHeatmap.shape[2]
           heatmapArray == HeatmapArray(normalizedHeatmap)
       IN  byThreshold' =
               [t \in Thresholds |->
                   [percentAffected |-> PercentAffected(heatmapArray, height, width, t),
                    lccSize |-> calculateLCC(heatmapArray, t)]]
    /\ pc' = "swept"
    /\ UNCHANGED <<camVars, rawMap, normalizedHeatmap, metrics>>
    /\ UNCHANGED encVars
    /\ UNCHANGED <<pageVars, calVars>>

Next == Normalize \/ Metrics \/ Sweep

Spec == Init /\ [][Next]_vars

----------------------------------------------------------------------------
(* computeGradCAM, lines 155-220 *)

\* The grids convertScanDataToTensor builds: cells 0.0 or 1.0.
InputTensors ==
    UNION {{Tensor4D(s[1], s[2], 1, d) : d \in [1..(s[1] * s[2]) -> {Zero, One}]} :
           s \in Shapes}

InitCam ==
    /\ pc = "cam_start"
    /\ model \in Classifiers
    /\ inputTensor \in InputTensors
    /\ classIndex \in Classes
    /\ convOutputs = NoTensor
    /\ grads = NoTensor
    /\ pooledGrads = NoTensor
    /\ liveTensors = {}
    /\ rawMap = NoTensor
    /\ normalizedHeatmap = NoTensor
    /\ metrics = NoMetrics
    /\ byThreshold = <<>>
    /\ scanData = NoScanData
    /\ encoded = NoEncoding
    /\ PageClosed
    /\ CalClosed

\* lines 160-165: no Conv2D layer, the call throws
CamNoConvLayer ==
    /\ pc = "cam_start"
    /\ getLastConvLayerName(model) = "null"
    /\ pc' = "cam_failed"
    /\ UNCHANGED <<camVars, rawMap, normalizedHeatmap, metrics, byThreshold>>
    /\ UNCHANGED encVars
    /\ UNCHANGED <<pageVars, calVars>>

\* lines 160-182: gradModel is built and run on the input, up to the await
CamPredict ==
    /\ pc = "cam_start"
    /\ getLastConvLayerName(model) # "null"
    /\ WeightsLive(model)
    /\ convOutputs' = ConvActivations(model, inputTensor)
    /\ liveTensors' = liveTensors \cup TensorsOfPredict
    /\ pc' = "cam_predicted"
    /\ UNCHANGED <<model, inputTensor, classIndex, grads, pooledGrads,
                   rawMap, normalizedHeatmap, metrics, byThreshold>>
    /\ UNCHANGED encVars
    /\ UNCHANGED <<pageVars, calVars>>

\* lines 184-205: gradients, pooling, weighting, rectified sum and
\* normalization, up to the await of heatmap.data() in computeMetrics
CamHeatmap ==
    /\ pc = "cam_predicted"
    /\ grads' = GradOfScore(model, inputTensor, classIndex)
    /\ pooledGrads' = MeanOverSpatial(grads')
    /\ rawMap' = RawHeatmap(convOutputs, pooledGrads')
    /\ normalizedHeatmap' = normalizeHeatmap(rawMap')
    /\ liveTensors' = liveTensors \cup TensorsOfHeatmap
    /\ pc' = "cam_metrics"
    /\ UNCHANGED <<model, inputTensor, classIndex, convOutputs, metrics, byThreshold>>
    /\ UNCHANGED encVars
    /\ UNCHANGED <<pageVars, calVars>>

\* lines 205-219 (and 272-328): the metrics are computed, the intermediate
\* tensors and gradModel are disposed and the result is returned
CamReturn ==
    /\ pc = "cam_metrics"
    /\ metrics' = computeMetrics(normalizedHeatmap)
    /\ liveTensors' = liveTensors \ TensorsDisposed
    /\ model' = DisposeGradModel(model)
    /\ pc' = "cam_done"
    /\ UNCHANGED <<inputTensor, classIndex, convOutputs, grads, pooledGrads, rawMap,
                   normalizedHeatmap, byThreshold>>
    /\ UNCHANGED encVars
    /\ UNCHANGED <<pageVars, calVars>>

\* lines 167-182: gradModel.predict throws inside tf.tidy, which releases
\* what the pass had allocated; the weights of the classifier are released
CamPredictThrows ==
    /\ pc = "cam_start"
    /\ getLastConvLayerName(model) # "null"
    /\ ~WeightsLive(model)
    /\ pc' = "cam_failed"
    /\ UNCHANGED <<camVars, rawMap, normalizedHeatmap, metrics, byThreshold>>
    /\ UNCHANGED encVars
    /\ UNCHANGED <<pageVars, calVars>>

\* The caller calls computeGradCAM again with the classifier it holds, as
\* pages/GradCamAnalysis does at line 174 for each request; the model follows
\* a second call on the same input.  The caller owns the heatmap returned
\* before; the tensors of the new call are counted from none.
CamAgain ==
    /\ pc = "cam_done"
    /\ convOutputs' = NoTensor
    /\ grads' = NoTensor
    /\ pooledGrads' = NoTensor
    /\ liveTensors' = {}
    /\ rawMap' = NoTensor
    /\ normalizedHeatmap' = NoTensor
    /\ metrics' = NoMetrics
    /\ pc' = "cam_start"
    /\ UNCHANGED <<model, inputTensor, classIndex, byThreshold>>
    /\ UNCHANGED encVars
    /\ UNCHANGED <<pageVars, calVars>>

NextCam ==
    \/ CamNoConvLayer
    \/ CamPredict
    \/ CamHeatmap
    \/ CamReturn
    \/ CamPredictThrows
    \/ CamAgain

SpecCam == InitCam /\ [][NextCam]_vars

----------------------------------------------------------------------------
(* lib/models: the scan record's scan_data and its encoding as a grid *)

\* line 58: the fallback of settings?.gridSize || 20
DefaultGridSize == 20

\* line 58: settings?.gridSize || 20
GridSizeOf(sd) ==
    IF "settings" \in DOMAIN sd /\ "gridSize" \in DOMAIN sd.settings /\ sd.settings.gridSize # 0
    THEN sd.settings.gridSize
    ELSE DefaultGridSize

\* line 59: Math.floor(screenDimensions.width / gridSize)
GridCols(screenDimensions, gridSize) == screenDimensions.width \div gridSize

GridRowsFromWidth(screenDimensions, gridSize) == screenDimensions.width \div gridSize

\* line 60: Math.floor(screenDimensions.height / gridSize)
GridRows(screenDimensions, gridSize) == screenDimensions.height \div gridSize

\* lines 70, 83: Array(rows).fill(null).map(() => Array(cols).fill(false))
EmptyGrid(rows, cols) == [r \in 1..rows |-> [c \in 1..cols |-> FALSE]]

MarkPointClamped(booleanGrid, point, gridSize, rows, cols) ==
    LET clamp(v, n) == IF v < 0 THEN 0 ELSE IF v >= n THEN n - 1 ELSE v
        gridX == clamp(point.x \div gridSize, cols)
        gridY == clamp(point.y \div gridSize, rows)
    IN  IF rows > 0 /\ cols > 0
        THEN [booleanGrid EXCEPT ![gridY + 1][gridX + 1] = TRUE]
        ELSE booleanGrid

\* lines 73-79: one point of a trail
MarkPoint(booleanGrid, point, gridSize, rows, cols) ==
    LET gridX == point.x \div gridSize
        gridY == point.y \div gridSize
    IN  IF gridX >= 0 /\ gridX < cols /\ gridY >= 0 /\ gridY < rows
        THEN [booleanGrid EXCEPT ![gridY + 1][gridX + 1] = TRUE]
        ELSE booleanGrid

\* lines 73-79: trail.forEach, from point k on
RECURSIVE MarkTrail(_, _, _, _, _, _)
MarkTrail(booleanGrid, trail, k, gridSize, rows, cols) ==
    IF k > Len(trail) THEN booleanGrid
    ELSE MarkTrail(MarkPoint(booleanGrid, trail[k], gridSize, rows, cols),
                   trail, k + 1, gridSize, rows, cols)

\* lines 72-80: scanData.trails.forEach, from trail k on
RECURSIVE MarkTrails(_, _, _, _, _, _)
MarkTrails(booleanGrid, trails, k, gridSize, rows, cols) ==
    IF k > Len(trails) THEN booleanGrid
    ELSE MarkTrails(MarkTrail(booleanGrid, trails[k], 1, gridSize, rows, cols),
                    trails, k + 1, gridSize, rows, cols)

\* lines 28-46: scanData[row] && scanData[row][col] ? 1.0 : 0.0, as a tensor
\* of shape [1, gridHeight, gridWidth, 1]
convertScanDataToTensor(grid, gridHeight, gridWidth) ==
    Tensor4D(gridHeight, gridWidth, 1,
             [k \in 1..(gridHeight * gridWidth) |->
                 LET row == (k - 1) \div gridWidth
                     col == (k - 1) % gridWidth
                 IN  IF /\ row + 1 \in DOMAIN grid
                        /\ col + 1 \in DOMAIN grid[row + 1]
                        /\ grid[row + 1][col + 1]
                     THEN One ELSE Zero])

\* The scan_data of a scan record is a record with some of the fields
\* gridData, trails, screenDimensions and settings.
Thrown(name) == [thrown |-> name]

\* lines 53-94; the read of screenDimensions.width at line 59 throws a
\* TypeError when the record has no screenDimensions
preprocessScanData(sd) ==
    IF "screenDimensions" \notin DOMAIN sd THEN Thrown("TypeError")
    ELSE
    LET gridSize == GridSizeOf(sd)
        cols == GridCols(sd.screenDimensions, gridSize)
        rows == GridRows(sd.screenDimensions, gridSize)
        booleanGrid ==
            IF "gridData" \in DOMAIN sd /\ Len(sd.gridData) > 0 THEN sd.gridData
            ELSE IF "trails" \in DOMAIN sd
                 THEN MarkTrails(EmptyGrid(rows, cols), sd.trails, 1, gridSize, rows, cols)
                 ELSE EmptyGrid(rows, cols)
    IN  [tensor |-> convertScanDataToTensor(booleanGrid, rows, cols),
         gridDimensions |-> [rows |-> rows, cols |-> cols],
         gridSize |-> gridSize,
         booleanGrid |-> booleanGrid]

\* Screens, settings and trail points of the scan records tried.  With the
\* default cell size 20 the first screen is a grid of 2 rows and 3 columns;
\* the second has a strip right of the last column and, at cell size 30, no
\* row at all.
Screens == {[width |-> 60, height |-> 40], [width |-> 70, height |-> 25]}

SettingsTried == {[gridSize |-> 30, dotSize |-> 4], [dotSize |-> 4]}

Points == {[x |-> -1, y |-> 5], [x |-> 10, y |-> 30], [x |-> 45, y |-> 10], [x |-> 65, y |-> 22]}

TrailCounts == {0, 1, 2}

Trails == UNION {[1..n -> Points] : n \in 0..MaxPoints}

TrailLists == UNION {[1..n -> Trails] : n \in TrailCounts}

GridDatas == { <<>>,
               << <<TRUE, FALSE, TRUE>>, <<FALSE, TRUE, FALSE>> >>,
               << <<TRUE>> >> }

\* The records the scan screens write: a trail scan carries trails, a grid
\* scan carries gridData, and neither carries both; a record may lack its
\* settings, and a damaged one its screenDimensions.
TrailRecords ==
    {[trails |-> t, screenDimensions |-> sc] : t \in TrailLists, sc \in Screens}
    \cup {[trails |-> t, screenDimensions |-> sc, settings |-> st] :
              t \in TrailLists, sc \in Screens, st \in SettingsTried}

GridRecords ==
    {[gridData |-> g, screenDimensions |-> sc] : g \in GridDatas, sc \in Screens}
    \cup {[gridData |-> g, screenDimensions |-> sc, settings |-> st] :
              g \in GridDatas, sc \in Screens, st \in SettingsTried}

BareRecords ==
    {[screenDimensions |-> sc] : sc \in Screens}
    \cup {[screenDimensions |-> sc, settings |-> st] : sc \in Screens, st \in SettingsTried}

DamagedTrailLists == {<<>>, << <<[x |-> 10, y |-> 30]>> >>}

DamagedRecords ==
    {[trails |-> t] : t \in DamagedTrailLists}
    \cup {[trails |-> t, settings |-> st] : t \in DamagedTrailLists, st \in SettingsTried}

ScanRecords == TrailRecords \cup GridRecords \cup BareRecords \cup DamagedRecords

InitEncode ==
    /\ pc = "enc_start"
    /\ scanData \in ScanRecords
    /\ encoded = NoEncoding
    /\ model = NoModel
    /\ inputTensor = NoTensor
    /\ classIndex = 0
    /\ convOutputs = NoTensor
    /\ grads = NoTensor
    /\ pooledGrads = NoTensor
    /\ liveTensors = {}
    /\ rawMap = NoTensor
    /\ normalizedHeatmap = NoTensor
    /\ metrics = NoMetrics
    /\ byThreshold = <<>>
    /\ PageClosed
    /\ CalClosed

\* lines 53-94: preprocessScanData returns
Preprocess ==
    /\ pc = "enc_start"
    /\ "thrown" \notin DOMAIN preprocessScanData(scanData)
    /\ encoded' = preprocessScanData(scanData)
    /\ pc' = "enc_done"
    /\ UNCHANGED <<scanData, camVars, metricVars>>
    /\ UNCHANGED <<pageVars, calVars>>

\* line 59: preprocessScanData throws
PreprocessThrows ==
    /\ pc = "enc_start"
    /\ "thrown" \in DOMAIN preprocessScanData(scanData)
    /\ encoded' = preprocessScanData(scanData)
    /\ pc' = "enc_failed"
    /\ UNCHANGED <<scanData, camVars, metricVars>>
    /\ UNCHANGED <<pageVars, calVars>>

NextEncode == Preprocess \/ PreprocessThrows

SpecEncode == InitEncode /\ [][NextEncode]_vars

----------------------------------------------------------------------------
(* pages/GradCamAnalysis: the page's state and its handlers.               *)
(*                                                                         *)
(* Each action is one handler, or the part of an async handler between two *)
(* awaits.  A handler that is awaiting keeps the values its closure        *)
(* captured (selectedScan, model, currentResults, currentHeatmap) in its   *)
(* frame.  The page is open on a database whose scans are not yet          *)
(* analysed, with the scan list loaded.  One call of saveResults is        *)
(* followed at a time.                                                     *)
(***************************************************************************)

ScanIds == {"scan_1", "scan_2"}

WellFormedScanData ==
    [trails |-> << <<[x |-> 10, y |-> 30], [x |-> 45, y |-> 10]>> >>,
     screenDimensions |-> [width |-> 60, height |-> 40],
     settings |-> [dotSize |-> 4]]

DamagedScanData ==
    [trails |-> << <<[x |-> 10, y |-> 30]>> >>,
     settings |-> [dotSize |-> 4]]

\* What loadModel('classifier') can resolve to.
PageClassifiers ==
    {[layers |-> DenseLayers],
     [layers |-> ConvLayers,
      kernel |-> [c \in Channels |-> 2],
      dense |-> [k \in Classes |-> [c \in Channels |-> 1]]]}

\* line 157
ModelNotAvailable ==
    [isError |-> TRUE,
     message |-> "Model not available. Please ensure a trained model is placed in /public/models/classifier/"]

\* lib/gradcam line 164
NoConvLayerFound == [isError |-> TRUE, message |-> "No convolutional layer found in model"]

\* lib/models line 59: the TypeError of reading .width of undefined
WidthOfUndefined ==
    [isError |-> TRUE, message |-> "Cannot read properties of undefined (reading 'width')"]

\* TensorFlow.js, thrown by predict when it reads a weight that was released
VariableDisposed ==
    [isError |-> TRUE, message |-> "LayersVariable conv2d_1/kernel is already disposed."]

ErrorMessageUnknown(error) == "Unknown error occurred"

\* line 202: error instanceof Error ? error.message : 'Unknown error occurred'
ErrorMessage(error) == IF error.isError THEN error.message ELSE "Unknown error occurred"

\* ScanSelector lines 48-53: a row of scan_history as the scan list holds it
MappedScan(row) ==
    [id |-> row.id,
     scan_data |-> row.scan_data,
     analysis_status |-> IF row.analysis_status = "null" THEN "not_processed"
                         ELSE row.analysis_status,
     analysis_results |-> row.analysis_results]

InitPage ==
    /\ \E d \in {WellFormedScanData, DamagedScanData} :
          scanHistory = [id \in ScanIds |->
                            [id |-> id,
                             scan_data |-> IF id = "scan_1" THEN d ELSE WellFormedScanData,
                             analysis_status |-> "null",
                             analysis_results |-> Null]]
    /\ storage = {}
    /\ scans = [id \in ScanIds |-> MappedScan(scanHistory[id])]
    /\ selectedScan = Null
    /\ isAnalyzing = FALSE
    /\ currentHeatmap = Null
    /\ currentResults = Null
    /\ analysisError = "null"
    /\ cachedModel = NoModel
    /\ analysis = IdleAnalysis
    /\ saving = IdleSaving
    /\ toast = "none"
    /\ modelLoads = 0
    /\ CalClosed
    /\ pc = "page"
    /\ model = NoModel
    /\ inputTensor = NoTensor
    /\ classIndex = 0
    /\ convOutputs = NoTensor
    /\ grads = NoTensor
    /\ pooledGrads = NoTensor
    /\ liveTensors = {}
    /\ rawMap = NoTensor
    /\ normalizedHeatmap = NoTensor
    /\ metrics = NoMetrics
    /\ byThreshold = <<>>
    /\ scanData = NoScanData
    /\ encoded = NoEncoding

\* lines 82-92
handleScanSelect(scan) ==
    /\ selectedScan' = scan
    /\ currentHeatmap' = Null
    /\ analysisError' = "null"
    /\ currentResults' =
          IF scan.analysis_status = "processed" /\ scan.analysis_results # Null
          THEN scan.analysis_results
          ELSE Null

\* ScanSelector lines 143-152: a scan of the list is clicked
onScanSelect(id) ==
    /\ handleScanSelect(scans[id])
    /\ UNCHANGED <<scanHistory, storage, scans, isAnalyzing, cachedModel, analysis,
                   saving, toast, modelLoads, engineVars, calVars>>

\* lines 107-112: the row loadScanById read, as it hands it to
\* handleScanSelect
LoadedById(row) ==
    [id |-> row.id,
     scan_data |-> row.scan_data,
     analysis_status |-> IF row.analysis_status = "completed" THEN "processed"
                         ELSE "not_processed",
     analysis_results |-> row.analysis_results]

\* Dashboard lines 46-49, 100-106 and 155: the Grad-CAM view is opened, from
\* the menu or by Run Analysis on a scan of the history, and the page is
\* mounted: its state is new (lines 48-53), ScanSelector loads the list
\* (ScanSelector lines 30-56) and, given a scanId, loadScanById selects the
\* scan (lines 95-113).  The two reads are taken in one step.
OpenGradCam(scanId) ==
    /\ pc = "home"
    /\ pc' = "page"
    /\ scans' = [id \in DOMAIN scanHistory |-> MappedScan(scanHistory[id])]
    /\ IF scanId = "null"
       THEN UNCHANGED <<selectedScan, currentHeatmap, analysisError, currentResults>>
       ELSE handleScanSelect(LoadedById(scanHistory[scanId]))
    /\ UNCHANGED <<scanHistory, storage, isAnalyzing, cachedModel, analysis, saving, toast,
                   modelLoads, camVars, metricVars, encVars, calVars>>

\* Dashboard lines 100-106: onBack shows the home view and the page is
\* unmounted: its state, the classifier it holds included, is dropped.  The
\* model leaves the page when no call of runAnalysis or saveResults is
\* awaiting.
onBack ==
    /\ pc = "page"
    /\ analysis.pc \in {"idle", "done", "failed"}
    /\ saving.pc \in {"idle", "saved", "failed", "no_blob"}
    /\ pc' = "home"
    /\ scans' = <<>>
    /\ selectedScan' = Null
    /\ isAnalyzing' = FALSE
    /\ currentHeatmap' = Null
    /\ currentResults' = Null
    /\ analysisError' = "null"
    /\ cachedModel' = NoModel
    /\ analysis' = IdleAnalysis
    /\ saving' = IdleSaving
    /\ toast' = "none"
    /\ UNCHANGED <<scanHistory, storage, modelLoads, camVars, metricVars, encVars, calVars>>

\* lines 200-212: the catch and finally blocks of runAnalysis
AnalysisFails(frame, error) ==
    /\ analysisError' = ErrorMessage(error)
    /\ toast' = "Analysis Failed"
    /\ isAnalyzing' = FALSE
    /\ analysis' = [frame EXCEPT !.pc = "failed", !.error = ErrorMessage(error),
                                 !.stages = Append(@, "Failed")]

\* lines 161-166: preprocessScanData, then predict, up to the await of
\* prediction.data()
EncodeAndPredict(frame) ==
    IF "thrown" \in DOMAIN preprocessScanData(frame.scan.scan_data)
    THEN AnalysisFails([frame EXCEPT !.stages = Append(@, "Encoding")], WidthOfUndefined)
    ELSE IF ~WeightsLive(frame.currentModel)
    THEN AnalysisFails([frame EXCEPT !.stages = @ \o <<"Encoding", "Inferring">>],
                       VariableDisposed)
    ELSE /\ analysis' = [frame EXCEPT !.pc = "predicting",
                                      !.stages = @ \o <<"Encoding", "Inferring">>]
         /\ isAnalyzing' = TRUE
         /\ analysisError' = "null"
         /\ toast' = toast

\* lines 129-166: Run Analysis is pressed (the button is disabled without a
\* selected scan and while isAnalyzing); the handler runs to its first await
runAnalysis ==
    /\ selectedScan # Null
    /\ ~isAnalyzing
    /\ currentHeatmap' = Null
    /\ currentResults' = Null
    /\ LET frame == [pc |-> "loading", scan |-> selectedScan, currentModel |-> cachedModel,
                     error |-> "null", stages |-> <<"Idle", "LoadingClassifier">>]
       IN  IF cachedModel = NoModel
           THEN /\ toast' = "Loading Model"
                /\ isAnalyzing' = TRUE
                /\ analysisError' = "null"
                /\ analysis' = frame
           ELSE EncodeAndPredict(frame)
    /\ UNCHANGED <<scanHistory, storage, scans, selectedScan, cachedModel, saving, modelLoads, engineVars, calVars>>

\* lines 154-166 (and lib/models lines 8-14): loadModel resolves with a
\* model read from the model file
ModelLoaded(m) ==
    /\ analysis.pc = "loading"
    /\ modelLoads < MaxLoads
    /\ modelLoads' = modelLoads + 1
    /\ cachedModel' = m
    /\ EncodeAndPredict([analysis EXCEPT !.currentModel = m])
    /\ UNCHANGED <<scanHistory, storage, scans, selectedScan, currentHeatmap, currentResults,
                   saving, engineVars, calVars>>

ModelLoadRetried ==
    /\ analysis.pc = "loading"
    /\ Len(analysis.stages) < 4
    /\ analysis' = [analysis EXCEPT !.stages = @ \o <<"Failed", "LoadingClassifier">>]
    /\ UNCHANGED <<scanHistory, storage, scans, selectedScan, isAnalyzing, currentHeatmap,
                   currentResults, analysisError, cachedModel, saving, toast, modelLoads,
                   engineVars, calVars>>

\* lines 156-158: loadModel rejects
ModelLoadFails ==
    /\ analysis.pc = "loading"
    /\ AnalysisFails(analysis, ModelNotAvailable)
    /\ UNCHANGED <<scanHistory, storage, scans, selectedScan, currentHeatmap, currentResults,
                   cachedModel, saving, modelLoads, engineVars, calVars>>

\* lines 166-174: prediction.data() resolves and computeGradCAM is called; it
\* throws at once (lib/gradcam lines 161-165) or runs to the await of the
\* heatmap's values in computeMetrics (lib/gradcam lines 167-205, 272)
PredictionRead ==
    /\ analysis.pc = "predicting"
    /\ analysis' = [analysis EXCEPT
                       !.pc = "cam",
                       !.stages = IF getLastConvLayerName(analysis.currentModel) = "null"
                                  THEN Append(@, "ComputingCAM")
                                  ELSE @ \o <<"ComputingCAM", "Normalizing",
                                              "ExtractingMetrics">>]
    /\ UNCHANGED <<scanHistory, storage, scans, selectedScan, isAnalyzing, currentHeatmap,
                   currentResults, analysisError, cachedModel, saving, toast, modelLoads, engineVars, calVars>>

\* line 190: grad_cam_map_url: ''
EmptyUrl == [scan |-> "", image |-> Null]

\* lines 174-198, 211: computeGradCAM resolves, having disposed its gradModel
\* (lib/gradcam line 214); the page's `model` is the object the call was
\* given
CamResolves ==
    /\ analysis.pc = "cam"
    /\ getLastConvLayerName(analysis.currentModel) # "null"
    /\ currentHeatmap' = [of |-> analysis.scan.id]
    /\ currentResults' = [of |-> analysis.scan.id, grad_cam_map_url |-> EmptyUrl]
    /\ toast' = "Analysis Complete"
    /\ isAnalyzing' = FALSE
    /\ cachedModel' = DisposeGradModel(analysis.currentModel)
    /\ analysis' = [analysis EXCEPT !.pc = "done",
                                    !.currentModel = DisposeGradModel(@),
                                    !.stages = @ \o <<"Assembling", "Ready">>]
    /\ UNCHANGED <<scanHistory, storage, scans, selectedScan, analysisError,
                   saving, modelLoads, engineVars, calVars>>

\* lines 174, 200-212: computeGradCAM rejects (lib/gradcam lines 163-165)
CamRejects ==
    /\ analysis.pc = "cam"
    /\ getLastConvLayerName(analysis.currentModel) = "null"
    /\ AnalysisFails(analysis, NoConvLayerFound)
    /\ UNCHANGED <<scanHistory, storage, scans, selectedScan, currentHeatmap, currentResults,
                   cachedModel, saving, modelLoads, engineVars, calVars>>

\* lines 308-313
canSave == selectedScan # Null /\ currentResults # Null /\ currentHeatmap # Null /\ ~isAnalyzing

SaveRunning == saving.pc \in {"image", "blob", "upload", "update"}

\* lines 295-303: the catch block of saveResults
SaveFails ==
    /\ saving' = [saving EXCEPT !.pc = "failed"]
    /\ toast' = "Save Failed"

\* lines 216-236: Save Results is pressed (the button is disabled unless
\* canSave); the handler runs to the await of heatmapToImageData
saveResults ==
    /\ canSave
    /\ ~SaveRunning
    /\ saving' = [pc |-> "image", scan |-> selectedScan, results |-> currentResults,
                  heatmap |-> currentHeatmap, fileName |-> Null, uploaded |-> FALSE]
    /\ UNCHANGED <<scanHistory, storage, scans, selectedScan, isAnalyzing, currentHeatmap,
                   currentResults, analysisError, cachedModel, analysis, toast, modelLoads, engineVars, calVars>>

\* lines 216-234, 295-303: Save Results is pressed and the canvas gives no
\* 2d context
saveResultsNoContext ==
    /\ canSave
    /\ ~SaveRunning
    /\ saving' = [pc |-> "failed", scan |-> selectedScan, results |-> currentResults,
                  heatmap |-> currentHeatmap, fileName |-> Null, uploaded |-> FALSE]
    /\ toast' = "Save Failed"
    /\ UNCHANGED <<scanHistory, storage, scans, selectedScan, isAnalyzing, currentHeatmap,
                   currentResults, analysisError, cachedModel, analysis, modelLoads, engineVars, calVars>>

\* lines 236-245: heatmapToImageData resolves; the canvas is asked for a blob
ImageDataReady ==
    /\ saving.pc = "image"
    /\ saving' = [saving EXCEPT !.pc = "blob"]
    /\ UNCHANGED <<scanHistory, storage, scans, selectedScan, isAnalyzing, currentHeatmap,
                   currentResults, analysisError, cachedModel, analysis, toast, modelLoads, engineVars, calVars>>

\* lines 240-245: canvas.toBlob calls back with null; the callback throws
\* outside the promise's executor, so the promise is neither resolved nor
\* rejected and the await at line 240 never returns
BlobMissing ==
    /\ saving.pc = "blob"
    /\ saving' = [saving EXCEPT !.pc = "no_blob"]
    /\ UNCHANGED <<scanHistory, storage, scans, selectedScan, isAnalyzing, currentHeatmap,
                   currentResults, analysisError, cachedModel, analysis, toast, modelLoads,
                   engineVars, calVars>>

\* lines 240-254: the blob arrives and the upload is requested; the file is
\* named after the scan (the time stamp of the name is left out)
BlobReady ==
    /\ saving.pc = "blob"
    /\ saving' = [saving EXCEPT !.pc = "upload",
                                !.fileName = [scan |-> saving.scan.id, image |-> saving.heatmap]]
    /\ UNCHANGED <<scanHistory, storage, scans, selectedScan, isAnalyzing, currentHeatmap,
                   currentResults, analysisError, cachedModel, analysis, toast, modelLoads, engineVars, calVars>>

\* lines 249-276: the upload succeeds and the update of the record is requested
UploadSucceeds ==
    /\ saving.pc = "upload"
    /\ storage' = storage \cup {saving.fileName}
    /\ saving' = [saving EXCEPT !.pc = "update", !.uploaded = TRUE]
    /\ UNCHANGED <<scanHistory, scans, selectedScan, isAnalyzing, currentHeatmap,
                   currentResults, analysisError, cachedModel, analysis, toast, modelLoads, engineVars, calVars>>

\* lines 256, 295-303: the upload fails
UploadFails ==
    /\ saving.pc = "upload"
    /\ SaveFails
    /\ UNCHANGED <<scanHistory, storage, scans, selectedScan, isAnalyzing, currentHeatmap,
                   currentResults, analysisError, cachedModel, analysis, modelLoads, engineVars, calVars>>

\* lines 259-261: the public URL of a file of the bucket, written as the
\* file's name
getPublicUrl(fileName) == fileName

\* lines 264-267
AnalysisResultsToSave(frame) ==
    [of |-> frame.results.of, grad_cam_map_url |-> getPublicUrl(frame.fileName)]

\* lines 269-293: the record is updated; the page takes the saved results
UpdateSucceeds ==
    /\ saving.pc = "update"
    /\ scanHistory' = [scanHistory EXCEPT ![saving.scan.id] =
                          [@ EXCEPT !.analysis_status = "processed",
                                    !.analysis_results = AnalysisResultsToSave(saving)]]
    /\ selectedScan' =
          IF selectedScan # Null
          THEN [selectedScan EXCEPT !.analysis_status = "processed",
                                    !.analysis_results = AnalysisResultsToSave(saving)]
          ELSE Null
    /\ currentResults' = AnalysisResultsToSave(saving)
    /\ toast' = "Results Saved"
    /\ saving' = [saving EXCEPT !.pc = "saved"]
    /\ UNCHANGED <<storage, scans, isAnalyzing, currentHeatmap, analysisError, cachedModel,
                   analysis, modelLoads, engineVars, calVars>>

\* lines 278, 295-303: the update of the record fails
UpdateFails ==
    /\ saving.pc = "update"
    /\ SaveFails
    /\ UNCHANGED <<scanHistory, storage, scans, selectedScan, isAnalyzing, currentHeatmap,
                   currentResults, analysisError, cachedModel, analysis, modelLoads, engineVars, calVars>>

NextPage ==
    \/ \E id \in DOMAIN scans : onScanSelect(id)
    \/ runAnalysis
    \/ \E m \in PageClassifiers : ModelLoaded(m)
    \/ ModelLoadFails
    \/ PredictionRead
    \/ CamResolves
    \/ CamRejects
    \/ saveResults
    \/ saveResultsNoContext
    \/ ImageDataReady
    \/ BlobReady
    \/ BlobMissing
    \/ UploadSucceeds
    \/ UploadFails
    \/ UpdateSucceeds
    \/ UpdateFails

SpecPage == InitPage /\ [][NextPage]_vars

\* The steps by which a call of saveResults goes on from an await
SaveStep ==
    \/ ImageDataReady
    \/ BlobReady
    \/ BlobMissing
    \/ UploadSucceeds
    \/ UploadFails
    \/ UpdateSucceeds
    \/ UpdateFails

\* The page where every await of saveResults that can go on does go on: the
\* image data, the canvas callback, the upload and the update each settle.
SpecPageFair == InitPage /\ [][NextPage]_vars /\ WF_vars(SaveStep)

\* The application with one scan in its history, the Grad-CAM view open on
\* it from the menu; the view is left and opened again.
InitSession ==
    /\ scanHistory = [id \in {"scan_1"} |->
                         [id |-> id,
                          scan_data |-> WellFormedScanData,
                          analysis_status |-> "null",
                          analysis_results |-> Null]]
    /\ storage = {}
    /\ scans = [id \in DOMAIN scanHistory |-> MappedScan(scanHistory[id])]
    /\ selectedScan = Null
    /\ isAnalyzing = FALSE
    /\ currentHeatmap = Null
    /\ currentResults = Null
    /\ analysisError = "null"
    /\ cachedModel = NoModel
    /\ analysis = IdleAnalysis
    /\ saving = IdleSaving
    /\ toast = "none"
    /\ modelLoads = 0
    /\ CalClosed
    /\ pc = "page"
    /\ model = NoModel
    /\ inputTensor = NoTensor
    /\ classIndex = 0
    /\ convOutputs = NoTensor
    /\ grads = NoTensor
    /\ pooledGrads = NoTensor
    /\ liveTensors = {}
    /\ rawMap = NoTensor
    /\ normalizedHeatmap = NoTensor
    /\ metrics = NoMetrics
    /\ byThreshold = <<>>
    /\ scanData = NoScanData
    /\ encoded = NoEncoding

NextSession ==
    \/ NextPage
    \/ onBack
    \/ \E scanId \in DOMAIN scanHistory \cup {"null"} : OpenGradCam(scanId)

SpecSession == InitSession /\ [][NextSession]_vars

----------------------------------------------------------------------------
(***************************************************************************)
(* components/CalibrationPage: the reaction-time calibration.              *)
(*                                                                         *)
(* Each action is one handler or one timer callback.  A timer is armed     *)
(* while its ref holds it; timeoutRef holds the callback to run and, for   *)
(* the wait after a reaction, the number of measurements its closure       *)
(* captured.  The timeouts of handleStartCalibration are held by no ref.   *)
(* Times are not modelled except for one order: a 100 ms start timeout     *)
(* fires before the 1000 ms interval armed after it was set.               *)
(***************************************************************************)

\* line 79: newMeasurements.length >= 5
RequiredMeasurements == 5

\* Reaction times in ms (Date.now() - dotStartTime)
ReactionTimes == {250, 400}

NoTimeout == [callback |-> "undefined", count |-> 0]

\* lines 10-14: the state of a mounted CalibrationPage
InitCalibration ==
    /\ phase = "ready"
    /\ countdown = 3
    /\ measurements = <<>>
    /\ currentTrial = 0
    /\ intervalRef = "undefined"
    /\ timeoutRef = NoTimeout
    /\ startTimeouts = 0
    /\ pc = "calibration"
    /\ model = NoModel
    /\ inputTensor = NoTensor
    /\ classIndex = 0
    /\ convOutputs = NoTensor
    /\ grads = NoTensor
    /\ pooledGrads = NoTensor
    /\ liveTensors = {}
    /\ rawMap = NoTensor
    /\ normalizedHeatmap = NoTensor
    /\ metrics = NoMetrics
    /\ byThreshold = <<>>
    /\ scanData = NoScanData
    /\ encoded = NoEncoding
    /\ PageClosed

\* lines 89-94: Start Calibration is pressed (the button is shown in phase
\* 'ready' only)
handleStartCalibration ==
    /\ phase = "ready"
    /\ startTimeouts < MaxStarts
    /\ measurements' = <<>>
    /\ currentTrial' = 0
    /\ phase' = "ready"
    /\ startTimeouts' = startTimeouts + 1
    /\ UNCHANGED <<countdown, intervalRef, timeoutRef, engineVars, pageVars>>

\* lines 32-61, up to the arming of the interval: clearTimers, the trial
\* counter, the countdown phase
startSingleMeasurement ==
    /\ timeoutRef' = NoTimeout
    /\ intervalRef' = "interval"
    /\ currentTrial' = currentTrial + 1
    /\ phase' = "countdown"
    /\ countdown' = 3

\* line 93: a timeout of handleStartCalibration fires
StartTimeoutFires ==
    /\ phase \notin {"closed"}
    /\ startTimeouts > 0
    /\ startTimeouts' = startTimeouts - 1
    /\ startSingleMeasurement
    /\ UNCHANGED <<measurements, engineVars, pageVars>>

\* lines 40-60: the interval fires; at 1 it stops, 'Get ready' is shown and
\* the timeout that shows the dot is armed
IntervalTick ==
    /\ intervalRef = "interval"
    /\ startTimeouts = 0
    /\ IF countdown <= 1
       THEN /\ intervalRef' = "undefined"
            /\ phase' = "getready"
            /\ timeoutRef' = [callback |-> "showDot", count |-> 0]
            /\ countdown' = 0
       ELSE /\ countdown' = countdown - 1
            /\ UNCHANGED <<intervalRef, phase, timeoutRef>>
    /\ UNCHANGED <<measurements, currentTrial, startTimeouts, engineVars, pageVars>>

\* lines 50-54: the random delay is over, the red dot is shown
ShowDot ==
    /\ timeoutRef.callback = "showDot"
    /\ phase' = "measuring"
    /\ timeoutRef' = NoTimeout
    /\ UNCHANGED <<countdown, measurements, currentTrial, intervalRef, startTimeouts,
                   engineVars, pageVars>>

handleReactionInAnyPhase(reactionTime) ==
    /\ phase # "closed"
    /\ Len(measurements) <= RequiredMeasurements
    /\ measurements' = Append(measurements, reactionTime)
    /\ intervalRef' = "undefined"
    /\ phase' = "wait"
    /\ timeoutRef' = [callback |-> "afterWait", count |-> Len(measurements')]
    /\ UNCHANGED <<countdown, currentTrial, startTimeouts, engineVars, pageVars>>

\* lines 64-86: a click or a key press (Space, Enter); outside phase
\* 'measuring' the handler returns at once
handleReaction(reactionTime) ==
    /\ phase # "closed"
    /\ IF phase # "measuring"
       THEN UNCHANGED <<measurements, intervalRef, phase, timeoutRef>>
       ELSE /\ measurements' = Append(measurements, reactionTime)
            /\ intervalRef' = "undefined"
            /\ phase' = "wait"
            /\ timeoutRef' = [callback |-> "afterWait", count |-> Len(measurements')]
    /\ UNCHANGED <<countdown, currentTrial, startTimeouts, engineVars, pageVars>>

\* lines 77-85: the wait after a reaction is over
AfterWait ==
    /\ timeoutRef.callback = "afterWait"
    /\ IF timeoutRef.count >= RequiredMeasurements
       THEN /\ phase' = "complete"
            /\ timeoutRef' = NoTimeout
            /\ UNCHANGED <<countdown, currentTrial, intervalRef>>
       ELSE startSingleMeasurement
    /\ UNCHANGED <<measurements, startTimeouts, engineVars, pageVars>>

\* The page is unmounted: onExit by Escape or Cancel (lines 104-106, 216-223),
\* or Start Scan after the calibration (lines 130-132); the timers of the
\* refs are cleared (lines 121-125)
CalibrationCloses ==
    /\ phase # "closed"
    /\ phase' = "closed"
    /\ countdown' = 3
    /\ measurements' = <<>>
    /\ currentTrial' = 0
    /\ intervalRef' = "undefined"
    /\ timeoutRef' = NoTimeout
    /\ startTimeouts' = 0
    /\ UNCHANGED <<engineVars, pageVars>>

\* Dashboard lines 31-33 and 52-59: the calibration view is opened and the
\* page is mounted
CalibrationOpens ==
    /\ phase = "closed"
    /\ pc = "calibration"
    /\ phase' = "ready"
    /\ UNCHANGED <<countdown, measurements, currentTrial, intervalRef, timeoutRef,
                   startTimeouts, engineVars, pageVars>>

NextCalibration ==
    \/ handleStartCalibration
    \/ StartTimeoutFires
    \/ IntervalTick
    \/ ShowDot
    \/ \E reactionTime \in ReactionTimes : handleReaction(reactionTime)
    \/ AfterWait
    \/ CalibrationCloses
    \/ CalibrationOpens

SpecCalibration == InitCalibration /\ [][NextCalibration]_vars

----------------------------------------------------------------------------
(* Properties of computeGradCAM *)

CamComputed == pc \in {"cam_metrics", "cam_done"}

\* The gradient of the score of class classIndex with respect to the
\* activation A[h, w, c] of the Conv2D layer: the score is
\* sum_c dense[classIndex][c] * mean_hw A[h, w, c].
ActivationGradient(h, w, c) ==
    Rat(model.dense[classIndex][c], convOutputs.shape[2] * convOutputs.shape[3])

RECURSIVE RatSetSum(_, _)
RatSetSum(S, f) ==
    IF S = {} THEN Zero
    ELSE LET x == CHOOSE x \in S : TRUE
         IN  RAdd(f[x], RatSetSum(S \ {x}, f))

Positions == (0..(convOutputs.shape[2] - 1)) \X (0..(convOutputs.shape[3] - 1))

\* mean over (h, w) of G[h, w, c]
ChannelWeight(c) ==
    RDiv(RatSetSum(Positions, [q \in Positions |-> ActivationGradient(q[1], q[2], c)]),
         Int2Rat(Cardinality(Positions)))

\* C3: the gradient computeGradCAM takes is that of the class score with
\* respect to the activation tensor A of the feature layer, of the shape of
\* A, and the weight it uses for channel c of A is the mean over (h, w) of
\* that gradient.
C3_WeightsAreMeansOfActivationGradient ==
    CamComputed =>
        /\ grads.shape = convOutputs.shape
        /\ \A c \in 0..(convOutputs.shape[4] - 1) :
              PooledFor(pooledGrads, c) = ChannelWeight(c)

\* sum over the channels c of weight[c] * A[h, w, c], with the weights
\* computeGradCAM pooled
CombinedAt(h, w) ==
    LET cs == 0..(convOutputs.shape[4] - 1)
    IN  RatSetSum(cs, [c \in cs |-> RMul(PooledFor(pooledGrads, c), At4(convOutputs, h, w, c))])

\* C4: every cell of the raw map is max(0, sum_c weight[c] * A[h, w, c]), no
\* cell is negative, and the raw map has the spatial shape [h, w] of the
\* feature layer's output.
C4_RawIsRectifiedCombination ==
    CamComputed =>
        /\ rawMap.shape = <<convOutputs.shape[2], convOutputs.shape[3]>>
        /\ Len(rawMap.data) = convOutputs.shape[2] * convOutputs.shape[3]
        /\ \A q \in Positions :
              LET raw == rawMap.data[q[1] * rawMap.shape[2] + q[2] + 1]
                  sum == CombinedAt(q[1], q[2])
              IN  /\ raw = (IF RLt(sum, Zero) THEN Zero ELSE sum)
                  /\ RLe(Zero, raw)

\* A raw map has been computed in which the combination is negative at one
\* cell, where the raw value is 0, and zero at another.
C4_Witness ==
    /\ pc = "cam_done"
    /\ \E q \in Positions :
          /\ RLt(CombinedAt(q[1], q[2]), Zero)
          /\ rawMap.data[q[1] * rawMap.shape[2] + q[2] + 1] = Zero
    /\ \E q \in Positions : CombinedAt(q[1], q[2]) = Zero

----------------------------------------------------------------------------
(* Properties of normalizeHeatmap and computeMetrics *)

Normalized == pc \in {"normalized", "measured", "swept"} /\ rawMap # NoTensor

InUnitInterval(v) == IsNum(v) /\ RLe(Zero, v) /\ RLe(v, One)

\* C1: every value of normalizeHeatmap(raw) lies in [0,1], for every raw map
\* of non-negative values.
C1_NormalizedInUnitInterval ==
    Normalized =>
        \A k \in 1..Len(normalizedHeatmap.data) : InUnitInterval(normalizedHeatmap.data[k])

\* A raw map that is not flat and whose minimum is not 0 has been normalized
\* and holds a value strictly between 0 and 1.
C1_Witness ==
    /\ Normalized
    /\ TfMin(rawMap) # Zero
    /\ \E k \in 1..Len(normalizedHeatmap.data) :
          RLt(Zero, normalizedHeatmap.data[k]) /\ RLt(normalizedHeatmap.data[k], One)

IsFlat(t) == \A k, l \in 1..Len(t.data) : t.data[k] = t.data[l]

\* C2: a raw map whose maximum equals its minimum normalizes to an all-zero
\* map of the same shape, and no element is the result of a division by zero.
C2_FlatMapNormalizesToZero ==
    (Normalized /\ IsFlat(rawMap)) =>
        /\ normalizedHeatmap.shape = rawMap.shape
        /\ Len(normalizedHeatmap.data) = Len(rawMap.data)
        /\ \A k \in 1..Len(normalizedHeatmap.data) : normalizedHeatmap.data[k] = Zero

\* A constant, non-zero raw map of several cells has been normalized.
C2_Witness ==
    /\ Normalized
    /\ IsFlat(rawMap)
    /\ Len(rawMap.data) > 1
    /\ rawMap.data[1] # Zero

\* The cells (0-based row and column) of the heatmap whose value exceeds t.
Above(t) ==
    LET width == normalizedHeatmap.shape[2]
    IN  {c \in (0..(normalizedHeatmap.shape[1] - 1)) \X (0..(width - 1)) :
            RLt(t, normalizedHeatmap.data[c[1] * width + c[2] + 1])}

\* Up, down, left, right; a diagonal step changes both coordinates.
Adjacent4(a, b) == Abs(a[1] - b[1]) + Abs(a[2] - b[2]) = 1

\* The cells of `mask` reachable from the set S through 4-adjacency.
RECURSIVE Reachable(_, _)
Reachable(S, mask) ==
    LET grown == S \cup {c \in mask : \E d \in S : Adjacent4(c, d)}
    IN  IF grown = S THEN S ELSE Reachable(grown, mask)

RECURSIVE SetMax(_)
SetMax(S) ==
    IF S = {} THEN 0
    ELSE LET x == CHOOSE x \in S : TRUE
         IN  MaxInt(x, SetMax(S \ {x}))

LargestComponent(mask) == SetMax({Cardinality(Reachable({c}, mask)) : c \in mask})

\* C5: calculateLCC returns the cell count of the largest set of cells above
\* the threshold that are mutually reachable through 4-adjacency, and 0 when
\* no cell is above it; for every heatmap and every threshold tried.
C5_LCCIsLargestFourConnectedComponent ==
    pc = "swept" =>
        \A t \in Thresholds : byThreshold[t].lccSize = LargestComponent(Above(t))

\* At 1/2 the cells above the threshold fall into several components, the
\* largest of at least three cells, two cells above it touch only diagonally,
\* and at threshold 1 no cell is above and the result is 0.
C5_Witness ==
    /\ pc = "swept"
    /\ byThreshold[Half].lccSize >= 3
    /\ Cardinality(Above(Half)) > byThreshold[Half].lccSize
    /\ \E a, b \in Above(Half) :
          /\ Abs(a[1] - b[1]) = 1 /\ Abs(a[2] - b[2]) = 1
          /\ b \notin Reachable({a}, Above(Half))
    /\ Above(One) = {}
    /\ byThreshold[One].lccSize = 0

\* C6: lccSize is at most the number of cells above the threshold, and 0
\* when no cell is above it.
C6_LCCAtMostCellsAbove ==
    pc = "swept" =>
        \A t \in Thresholds :
            /\ byThreshold[t].lccSize <= Cardinality(Above(t))
            /\ (Above(t) = {} => byThreshold[t].lccSize = 0)

\* Some cells are above 1/4 and some are not, the largest component is all
\* of the cells above 1/4, and at 3/4 no cell is above.
C6_Witness ==
    /\ pc = "swept"
    /\ LET quarter == [num |-> 1, den |-> 4]
       IN  /\ byThreshold[quarter].lccSize = Cardinality(Above(quarter))
           /\ Cardinality(Above(quarter)) >= 2
           /\ Cardinality(Above(quarter)) < Len(normalizedHeatmap.data)
    /\ Above([num |-> 3, den |-> 4]) = {}

\* C7: percentAffected is 100 * (cells strictly above 0.5) / (rows * cols),
\* and so lies in [0,100]; a cell equal to 0.5 is not counted.
C7_PercentAffectedFormula ==
    pc = "measured" =>
        /\ metrics.percentAffected =
               Rat(100 * Cardinality(Above(Half)), Len(normalizedHeatmap.data))
        /\ RLe(Zero, metrics.percentAffected)
        /\ RLe(metrics.percentAffected, Int2Rat(100))

\* A heatmap with a cell equal to 0.5, a cell above and a cell below it has
\* been measured.
C7_Witness ==
    /\ pc = "measured"
    /\ \E k \in 1..Len(normalizedHeatmap.data) : normalizedHeatmap.data[k] = Half
    /\ Above(Half) # {}
    /\ \E k \in 1..Len(normalizedHeatmap.data) : normalizedHeatmap.data[k] = Zero

\* C8: for thresholds t1 <= t2, percentAffected at t1 is at least
\* percentAffected at t2.
C8_PercentAffectedMonotone ==
    pc = "swept" =>
        \A t1, t2 \in Thresholds :
            RLe(t1, t2) =>
                RLe(byThreshold[t2].percentAffected, byThreshold[t1].percentAffected)

\* percentAffected strictly drops from threshold 1/4 to 1/2 and again to 1.
C8_Witness ==
    /\ pc = "swept"
    /\ RLt(byThreshold[Half].percentAffected,
           byThreshold[[num |-> 1, den |-> 4]].percentAffected)
    /\ RLt(byThreshold[One].percentAffected, byThreshold[Half].percentAffected)

\* The sum over the cells of S of the value ("v"), of column index * value
\* ("x") or of row index * value ("y").
RECURSIVE CellSum(_, _)
CellSum(S, what) ==
    IF S = {} THEN Zero
    ELSE LET c == CHOOSE c \in S : TRUE
             v == normalizedHeatmap.data[c[1] * normalizedHeatmap.shape[2] + c[2] + 1]
             term == CASE what = "v" -> v
                       [] what = "x" -> RMul(Int2Rat(c[2]), v)
                       [] what = "y" -> RMul(Int2Rat(c[1]), v)
         IN  RAdd(term, CellSum(S \ {c}, what))

Cells ==
    (0..(normalizedHeatmap.shape[1] - 1)) \X (0..(normalizedHeatmap.shape[2] - 1))

\* C9: centroid.x is sum(column * value) / sum(value) and centroid.y is
\* sum(row * value) / sum(value); when the sum of values is 0 the centroid is
\* (cols / 2, rows / 2).
C9_CentroidFormula ==
    pc = "measured" =>
        LET total == CellSum(Cells, "v")
        IN  IF total = Zero
            THEN /\ metrics.centroid.x = Rat(normalizedHeatmap.shape[2], 2)
                 /\ metrics.centroid.y = Rat(normalizedHeatmap.shape[1], 2)
            ELSE /\ RMul(metrics.centroid.x, total) = CellSum(Cells, "x")
                 /\ RMul(metrics.centroid.y, total) = CellSum(Cells, "y")

\* A heatmap of unequal values on two rows and two columns has been
\* measured, and its centroid is off the grid lines in both directions.
C9_Witness ==
    /\ pc = "measured"
    /\ normalizedHeatmap.shape[1] >= 2
    /\ normalizedHeatmap.shape[2] >= 2
    /\ metrics.centroid.x.den > 1
    /\ metrics.centroid.y.den > 1
    /\ CellSum(Cells, "x") # CellSum(Cells, "y")

\* C10: for a non-empty heatmap with values in [0,1], 0 <= centroid.x < cols
\* and 0 <= centroid.y < rows.
C10_CentroidInsideGrid ==
    pc = "measured" =>
        /\ RLe(Zero, metrics.centroid.x)
        /\ RLt(metrics.centroid.x, Int2Rat(normalizedHeatmap.shape[2]))
        /\ RLe(Zero, metrics.centroid.y)
        /\ RLt(metrics.centroid.y, Int2Rat(normalizedHeatmap.shape[1]))

\* The all-zero heatmap of more than one row and column has been measured
\* (the fallback).
C10_Witness ==
    /\ pc = "measured"
    /\ \A k \in 1..Len(normalizedHeatmap.data) : normalizedHeatmap.data[k] = Zero
    /\ normalizedHeatmap.shape[1] > 1
    /\ normalizedHeatmap.shape[2] > 1

\* The heatmap as rows of values, read from the tensor cell by cell.
Grid == [i \in 1..normalizedHeatmap.shape[1] |->
            [j \in 1..normalizedHeatmap.shape[2] |->
                normalizedHeatmap.data[(i - 1) * normalizedHeatmap.shape[2] + j]]]

\* The pairs (row, column j < floor(cols / 2)) of the left-right comparison, 1-based.
LRPairs ==
    (1..normalizedHeatmap.shape[1]) \X (1..(normalizedHeatmap.shape[2] \div 2))

LRLeft(q) == Grid[q[1]][q[2]]
LRRight(q) == Grid[q[1]][normalizedHeatmap.shape[2] + 1 - q[2]]

\* D: the sum of |left - right|, and M: the sum of max(left, right)
LRDiff == RatSetSum(LRPairs, [q \in LRPairs |-> RAbs(RSub(LRLeft(q), LRRight(q)))])
LRMaxSum ==
    RatSetSum(LRPairs,
              [q \in LRPairs |-> IF RLe(LRRight(q), LRLeft(q)) THEN LRLeft(q) ELSE LRRight(q)])

\* C11: symLR = max(0, 1 - D / M) over every row and every column
\* j < floor(cols / 2) paired with cols - 1 - j (the middle column of an odd
\* width is in no pair); symLR = 1 when M = 0; symLR is in [0,1].
C11_SymLRFormula ==
    pc = "measured" =>
        /\ IF LRMaxSum = Zero
           THEN metrics.symLR = One
           ELSE LET score == RSub(One, RDiv(LRDiff, LRMaxSum))
                IN  metrics.symLR = (IF RLt(score, Zero) THEN Zero ELSE score)
        /\ RLe(Zero, metrics.symLR)
        /\ RLe(metrics.symLR, One)

\* A heatmap of odd width with intensity in its middle column and a score
\* strictly between 0 and 1 has been measured.
C11_Witness ==
    /\ pc = "measured"
    /\ normalizedHeatmap.shape[2] = 3
    /\ \E i \in 1..normalizedHeatmap.shape[1] : Grid[i][2] # Zero
    /\ RLt(Zero, metrics.symLR)
    /\ RLt(metrics.symLR, One)

\* The all-zero heatmap, where M = 0, has been measured.
C11_WitnessZero ==
    /\ pc = "measured"
    /\ normalizedHeatmap.shape[2] >= 2
    /\ LRMaxSum = Zero

Transposed ==
    [j \in 1..normalizedHeatmap.shape[2] |->
        [i \in 1..normalizedHeatmap.shape[1] |-> Grid[i][j]]]

\* C12: calculateTopBottomSymmetry(h) = calculateLeftRightSymmetry(transpose of h)
C12_SymTBIsSymLROfTranspose ==
    pc = "measured" => metrics.symTB = calculateLeftRightSymmetry(Transposed)

\* A heatmap of two rows and three columns whose two scores differ and are
\* both below 1 has been measured.
C12_Witness ==
    /\ pc = "measured"
    /\ normalizedHeatmap.shape = <<2, 3>>
    /\ metrics.symTB # metrics.symLR
    /\ RLt(metrics.symTB, One)
    /\ RLt(metrics.symLR, One)

\* Every row reads the same from the left and from the right.
MirrorSymmetric ==
    \A i \in 1..normalizedHeatmap.shape[1], j \in 1..normalizedHeatmap.shape[2] :
        Grid[i][j] = Grid[i][normalizedHeatmap.shape[2] + 1 - j]

\* The left half is the columns j < floor(cols / 2) and the right half their
\* mirrors; the middle column of an odd width is in neither.
InLeftHalf(j) == j <= normalizedHeatmap.shape[2] \div 2
InRightHalf(j) == j > normalizedHeatmap.shape[2] - normalizedHeatmap.shape[2] \div 2

SomeIntensity == \E k \in 1..Len(normalizedHeatmap.data) : normalizedHeatmap.data[k] # Zero

AllInOneHalf ==
    \/ \A i \in 1..normalizedHeatmap.shape[1], j \in 1..normalizedHeatmap.shape[2] :
          Grid[i][j] # Zero => InLeftHalf(j)
    \/ \A i \in 1..normalizedHeatmap.shape[1], j \in 1..normalizedHeatmap.shape[2] :
          Grid[i][j] # Zero => InRightHalf(j)

\* C13: a heatmap mirror-symmetric about the vertical axis has
\* symLR >= 0.999; a heatmap with some intensity, all of it in the left half
\* or all of it in the right half, has symLR < 0.5.
C13_SymLROnSymmetricAndOneSided ==
    pc = "measured" =>
        /\ MirrorSymmetric => RLe([num |-> 999, den |-> 1000], metrics.symLR)
        /\ (SomeIntensity /\ AllInOneHalf) => RLt(metrics.symLR, Half)

\* A heatmap of three columns with unequal intensities, all in its right
\* column, has been measured.
C13_Witness ==
    /\ pc = "measured"
    /\ normalizedHeatmap.shape = <<2, 3>>
    /\ SomeIntensity
    /\ \A i \in 1..2, j \in 1..3 : Grid[i][j] # Zero => j = 3
    /\ Grid[1][3] # Grid[2][3]

\* A mirror-symmetric heatmap of three columns with intensity in a side
\* column has been measured.
C13_WitnessSymmetric ==
    /\ pc = "measured"
    /\ normalizedHeatmap.shape[2] = 3
    /\ MirrorSymmetric
    /\ \E i \in 1..normalizedHeatmap.shape[1] : Grid[i][1] # Zero

\* C14: for the 4x4 raw map with 0.5 in the top-left 2x2 block and 0
\* elsewhere, the heatmap is 1 in that block and 0 elsewhere, and
\* percentAffected = 25, centroid = (0.5, 0.5), lccSize = 4, symLR < 1 and
\* symTB < 1.
C14_Scenario ==
    (rawMap = ScenarioRawMap /\ pc # "raw") =>
        /\ normalizedHeatmap.shape = <<4, 4>>
        /\ \A i, j \in 1..4 :
              normalizedHeatmap.data[(i - 1) * 4 + j] = (IF i <= 2 /\ j <= 2 THEN One ELSE Zero)
        /\ pc = "measured" =>
              /\ metrics.percentAffected = Int2Rat(25)
              /\ metrics.centroid = [x |-> Half, y |-> Half]
              /\ metrics.lccSize = 4
              /\ RLt(metrics.symLR, One)
              /\ RLt(metrics.symTB, One)

\* The scenario's raw map has been normalized and measured.
C14_Witness == rawMap = ScenarioRawMap /\ pc = "measured"

-----------------------------------------------------------------------------
(* Degenerate and incompatible inputs of computeGradCAM *)

AllZero(t) == \A k \in 1..Len(t.data) : t.data[k] = Zero

\* C17: when the gradients are all zero, or the raw map is otherwise flat,
\* computeGradCAM does not fail: the heatmap is all-zero and the metrics
\* returned are percentAffected = 0, lccSize = 0, centroid = (cols / 2,
\* rows / 2), symLR = 1 and symTB = 1.
C17_FlatCompletesWithFallbacks ==
    (CamComputed /\ (AllZero(grads) \/ IsFlat(rawMap))) =>
        /\ AllZero(grads) => AllZero(rawMap)
        /\ AllZero(normalizedHeatmap)
        /\ pc = "cam_done" =>
              /\ metrics.percentAffected = Zero
              /\ metrics.lccSize = 0
              /\ metrics.centroid = [x |-> Rat(normalizedHeatmap.shape[2], 2),
                                     y |-> Rat(normalizedHeatmap.shape[1], 2)]
              /\ metrics.symLR = One
              /\ metrics.symTB = One

\* computeGradCAM has returned for gradients that are all zero on an input
\* with activations that are not.
C17_Witness ==
    /\ pc = "cam_done"
    /\ AllZero(grads)
    /\ ~AllZero(convOutputs)
    /\ convOutputs.shape[2] * convOutputs.shape[3] > 1

\* computeGradCAM has returned for a raw map that is flat and not zero.
C17_WitnessFlatNonZero ==
    /\ pc = "cam_done"
    /\ IsFlat(rawMap)
    /\ ~AllZero(rawMap)
    /\ Len(rawMap.data) > 1

\* The classifier has no Conv2D layer, or the output of its last Conv2D
\* layer on this input is 1x1.
NoSpatialFeatureLayer ==
    \/ getLastConvLayerName(model) = "null"
    \/ LET a == ConvActivations(model, inputTensor)
       IN  a.shape[2] = 1 /\ a.shape[3] = 1

\* C18: if the classifier exposes no feature layer with spatial extent
\* greater than 1x1, computeGradCAM fails and produces no heatmap and no
\* metrics.
C18_NoSpatialLayerFails ==
    NoSpatialFeatureLayer =>
        /\ pc \in {"cam_start", "cam_failed"}
        /\ normalizedHeatmap = NoTensor
        /\ metrics = NoMetrics

-----------------------------------------------------------------------------
(* Properties of preprocessScanData *)

\* The points of all trails of the record.
TrailPoints ==
    UNION {{scanData.trails[t][k] : k \in 1..Len(scanData.trails[t])} :
           t \in 1..Len(scanData.trails)}

\* The cell size of the record: settings.gridSize, 20 when the record names none.
CellSize ==
    IF "settings" \in DOMAIN scanData /\ "gridSize" \in DOMAIN scanData.settings
    THEN scanData.settings.gridSize ELSE DefaultGridSize

IsTrailRecord ==
    /\ "trails" \in DOMAIN scanData
    /\ "screenDimensions" \in DOMAIN scanData
    /\ CellSize > 0

\* Element (row r, col c), 0-based, of the tensor handed to the classifier.
FedCell(r, c) == At4(encoded.tensor, r, c, 0)

\* C15: for a record with trails, screen dimensions and cell size > 0, cell
\* (row r, col c) of the grid fed to the classifier is 1 if and only if some
\* point (x, y) of some trail has floor(x / cellSize) = c and
\* floor(y / cellSize) = r; a point that is negative or beyond the grid sets
\* no cell.
C15_CellSetIffSomePointMapsToIt ==
    (pc = "enc_done" /\ IsTrailRecord) =>
        LET rows == encoded.tensor.shape[2]
            cols == encoded.tensor.shape[3]
        IN  /\ \A r \in 0..(rows - 1), c \in 0..(cols - 1) :
                  FedCell(r, c) = (IF \E p \in TrailPoints :
                                         /\ p.x \div CellSize = c
                                         /\ p.y \div CellSize = r
                                   THEN One ELSE Zero)
            /\ Len(encoded.tensor.data) = rows * cols

\* A record has been encoded that has a negative point, a point beyond the
\* last column and a point inside the grid below the first row.
C15_Witness ==
    /\ pc = "enc_done"
    /\ IsTrailRecord
    /\ \E p \in TrailPoints : p.x < 0
    /\ \E p \in TrailPoints : p.x \div CellSize >= encoded.tensor.shape[3]
    /\ \E r \in 0..(encoded.tensor.shape[2] - 1), c \in 0..(encoded.tensor.shape[3] - 1) :
          FedCell(r, c) = One /\ r > 0

\* C16: an empty trail list encodes, without error, to an all-zero grid of
\* floor(height / cellSize) rows and floor(width / cellSize) columns.
C16_EmptyTrailListGivesZeroGrid ==
    (pc \in {"enc_done", "enc_failed"} /\ IsTrailRecord /\ scanData.trails = <<>>) =>
        /\ pc = "enc_done"
        /\ encoded.tensor.shape =
              <<1, scanData.screenDimensions.height \div CellSize,
                   scanData.screenDimensions.width \div CellSize, 1>>
        /\ encoded.gridDimensions =
              [rows |-> scanData.screenDimensions.height \div CellSize,
               cols |-> scanData.screenDimensions.width \div CellSize]
        /\ Len(encoded.tensor.data) = encoded.gridDimensions.rows * encoded.gridDimensions.cols
        /\ AllZero(encoded.tensor)

\* An empty trail list has been encoded to a grid of several rows and more
\* columns than rows.
C16_Witness ==
    /\ pc = "enc_done"
    /\ IsTrailRecord
    /\ scanData.trails = <<>>
    /\ encoded.gridDimensions.rows > 1
    /\ encoded.gridDimensions.cols > encoded.gridDimensions.rows

-----------------------------------------------------------------------------
(* Properties of the Grad-CAM page: failures *)

\* The scan the call of runAnalysis works on has no screen dimensions.
DamagedAnalysis ==
    /\ analysis.scan # Null
    /\ "screenDimensions" \notin DOMAIN analysis.scan.scan_data

\* Neither the page nor any scan's record holds a result computed from the
\* data of scan id.
NoResultOf(id) ==
    /\ currentResults = Null \/ currentResults.of # id
    /\ currentHeatmap = Null \/ currentHeatmap.of # id
    /\ \A s \in DOMAIN scanHistory :
          scanHistory[s].analysis_results = Null \/ scanHistory[s].analysis_results.of # id

C20_NoPartialResultOnFailure ==
    /\ [][(analysis'.pc = "failed" /\ analysis' # analysis) =>
              (currentResults' = Null /\ currentHeatmap' = Null)]_vars
    /\ [][(saving'.pc = "failed" /\ saving' # saving) => scanHistory' = scanHistory]_vars
    /\ [](saving.pc = "failed" => ~(saving.uploaded /\ saving.fileName \in storage))

-----------------------------------------------------------------------------
(* Properties of the Grad-CAM page: the stages of a request *)

\* The stages of a request, in the order runAnalysis and computeGradCAM go
\* through them.
StageOrder ==
    <<"Idle", "LoadingClassifier", "Encoding", "Inferring", "ComputingCAM", "Normalizing",
      "ExtractingMetrics", "Assembling", "Ready">>

IsPrefix(s, t) == Len(s) <= Len(t) /\ \A i \in 1..Len(s) : s[i] = t[i]

Terminal(st) == st # <<>> /\ st[Len(st)] \in {"Ready", "Failed"}

\* The stages entered are the first ones of the order, then possibly Failed
\* in place of the next one.
InStageOrder(st) ==
    \/ IsPrefix(st, StageOrder)
    \/ /\ st # <<>>
       /\ st[Len(st)] = "Failed"
       /\ Len(st) <= Len(StageOrder)
       /\ IsPrefix(SubSeq(st, 1, Len(st) - 1), StageOrder)

\* C21: a request passes through Idle, LoadingClassifier, Encoding,
\* Inferring, ComputingCAM, Normalizing, ExtractingMetrics, Assembling and
\* Ready in that order, skipping and reordering none, and may go from any of
\* them to Failed; Ready and Failed are terminal: the request enters no
\* further stage, and the only step that follows it with a new request is
\* the caller's pressing Run Analysis again.
C21_StagesInFixedOrder ==
    /\ [](InStageOrder(analysis.stages))
    /\ [][analysis'.stages # analysis.stages =>
            IF Terminal(analysis.stages) \/ analysis.stages = <<>>
            THEN runAnalysis
            ELSE /\ IsPrefix(analysis.stages, analysis'.stages)
                 /\ Len(analysis'.stages) > Len(analysis.stages)]_vars

\* A request has gone through every stage to Ready.
C21_Witness ==
    /\ analysis.pc = "done"
    /\ analysis.stages = StageOrder
    /\ isAnalyzing = FALSE
    /\ modelLoads = 1
    /\ currentResults # Null

-----------------------------------------------------------------------------
(* Properties of the application: the classifier across requests *)

\* C22: within one run of the application, leaving and re-opening the
\* Grad-CAM page included, the classifier is not loaded again once a load has
\* succeeded: loadModel resolves at most once.
C22_ClassifierLoadedAtMostOnce == modelLoads <= 1

-----------------------------------------------------------------------------
(* Properties of computeGradCAM: the classifier and the tensors *)

\* C23: computeGradCAM releases or alters none of the layers or weights of
\* the model it is given: at every point of every call, the first and the
\* later ones, the classifier is as it was loaded and its weights are live.
C23_ClassifierUnchangedByCalls ==
    /\ model \in Classifiers
    /\ WeightsLive(model)

\* C24: when a call of computeGradCAM has ended, by returning or by failing,
\* no tensor that the call allocated is live except the normalized heatmap
\* it returns.
C24_OnlyHeatmapLiveAtEnd ==
    /\ pc = "cam_done" => liveTensors = {"normalizedHeatmap"}
    /\ pc = "cam_failed" => liveTensors = {}

-----------------------------------------------------------------------------
(* Properties of calculateLCC: the traversal *)

\* A grid of one cell, above the threshold.
OneHotCell == << <<One>> >>

\* C25: the flood fill of calculateLCC is iterative and not recursive: the
\* depth of nested calls of the traversal does not grow with the number of
\* cells of the grid, so on no heatmap is it more than on a grid of one
\* cell.
C25_TraversalDepthConstant ==
    pc = "measured" =>
        calculateLCCDepth(HeatmapArray(normalizedHeatmap), Half)
            <= calculateLCCDepth(OneHotCell, Half)

-----------------------------------------------------------------------------
(* Properties of the application: saved results *)

\* Save Results has succeeded for the scan: its record holds the results.
Saved(id) ==
    /\ scanHistory[id].analysis_status = "processed"
    /\ scanHistory[id].analysis_results # Null

\* C26: once Save Results has succeeded for a scan, every step that opens
\* the scan (a click on it in the scan list, or the opening of the page with
\* its scanId) leaves it selected as processed with the saved results shown.
C26_SavedScanOpensProcessed ==
    [][\A id \in DOMAIN scanHistory :
          (/\ Saved(id)
           /\ \/ id \in DOMAIN scans /\ onScanSelect(id)
              \/ OpenGradCam(id)) =>
             /\ selectedScan'.analysis_status = "processed"
             /\ currentResults' = scanHistory[id].analysis_results]_vars

-----------------------------------------------------------------------------
(* Properties of the Grad-CAM page: saving *)

\* C27: Save Results can be triggered only when an analysis of the scan now
\* selected has completed in this session and no analysis is running: while
\* the button is enabled the heatmap and the results the page holds are
\* those of an analysis of the selected scan.
C27_SaveOnlyAfterAnalysisOfSelected ==
    canSave =>
        /\ analysis.pc \notin {"loading", "predicting", "cam"}
        /\ currentHeatmap.of = selectedScan.id
        /\ currentResults.of = selectedScan.id

\* C29: the results a scan's record holds were computed from that scan's
\* data, in every interleaving of the user's actions with the awaits of
\* runAnalysis and saveResults.
C29_SavedResultsAreOfTheSameScan ==
    \A id \in DOMAIN scanHistory :
        scanHistory[id].analysis_results # Null =>
            scanHistory[id].analysis_results.of = id

\* C30: every call of saveResults that has reached its first await
\* eventually ends and reports 'Results Saved' or 'Save Failed'.
C30_SaveEventuallyReports ==
    (saving.pc = "image") ~>
        \/ saving.pc = "saved" /\ toast = "Results Saved"
        \/ saving.pc = "failed" /\ toast = "Save Failed"

-----------------------------------------------------------------------------
(* Properties of the calibration page *)

\* The changes of phase within a measurement and from one to the next.
PhaseSteps ==
    {<<"ready", "countdown">>, <<"countdown", "getready">>, <<"getready", "measuring">>,
     <<"measuring", "wait">>, <<"wait", "countdown">>, <<"wait", "complete">>}

\* C28: a calibration run takes exactly 5 measurements, each by the countdown
\* 3-2-1, then 'Get ready', then the red dot, then the recorded reaction,
\* then a wait; a reaction is recorded only while the red dot is shown, the
\* measurements recorded never exceed 5, and 'complete' is reached only
\* after the fifth.
C28_FiveMeasurementsInSequence ==
    /\ [](Len(measurements) <= RequiredMeasurements)
    /\ [](phase = "complete" => Len(measurements) = RequiredMeasurements)
    /\ [](phase \in {"countdown", "getready", "measuring"} =>
             Len(measurements) < RequiredMeasurements)
    /\ [][measurements' # measurements =>
            \/ measurements' = <<>>
            \/ /\ phase = "measuring"
               /\ phase' = "wait"
               /\ Len(measurements') = Len(measurements) + 1
               /\ SubSeq(measurements', 1, Len(measurements)) = measurements]_vars
    /\ [][(phase' # phase /\ phase # "closed" /\ phase' # "closed") =>
            /\ <<phase, phase'>> \in PhaseSteps
            /\ phase' = "getready" => countdown = 1 /\ countdown' = 0
            /\ phase' = "countdown" => countdown' = 3]_vars
    /\ [][(countdown' # countdown /\ phase' # "closed") =>
            \/ countdown' = countdown - 1 /\ phase = "countdown"
            \/ countdown' = 3 /\ phase' = "countdown"]_vars

\* The fifth measurement has been recorded and the run is complete.
C28_Witness ==
    /\ phase = "complete"
    /\ Len(measurements) = RequiredMeasurements
    /\ currentTrial = RequiredMeasurements

====
